---- MODULE Spec2Model ----
(***************************************************************************)
(* Functional simulator of the Y4/WUT-4 processor (src/func), with the     *)
(* round-trip driver (src/itf) and the assembler front end (src/asm).      *)
(* The machine is the global y4 of func.go; one loop iteration of          *)
(* simulate() is one step.                                                 *)
(***************************************************************************)
EXTENDS Integers, Naturals, Sequences, FiniteSets, TLC

VARIABLES y4, dbEnabled, blockedForInput, status, itf, xl

vars == <<y4, dbEnabled, blockedForInput, status, itf, xl>>

\* ------------------------------------------------------------------ bounds
MaxCycles == 3

MaxSysCycles == 3

MaxBranchCycles == 4

MaxAluCycles == 3

MaxSprCycles == 5

\* --------------------------------------------------------------- constants
SprSize == 64
PC == 0
Link == 1
Irr == 2
Icr == 3
Imr == 4
CCLS == 6
CCMS == 7
User == 0
Kern == 1
ExIllegal == 32
ExMemory == 48
ExMachine == 62

W16 == 65536

\* ------------------------------------------------------------ word helpers
RECURSIVE pow2(_)
pow2(n) == IF n = 0 THEN 1 ELSE 2 * pow2(n - 1)

\* (w word) bits(hi, lo)
bits(w, hi, lo) == (w \div pow2(lo)) % pow2(hi - lo + 1)

add16(a, b) == (a + b) % W16

sub16(a, b) == (a - b + 2 * W16) % W16

RECURSIVE and16(_, _, _)
and16(a, b, n) ==
    IF n = 0 THEN 0
    ELSE (a % 2) * (b % 2) + 2 * and16(a \div 2, b \div 2, n - 1)

RECURSIVE or16(_, _, _)
or16(a, b, n) ==
    IF n = 0 THEN 0
    ELSE (IF (a % 2) + (b % 2) > 0 THEN 1 ELSE 0) + 2 * or16(a \div 2, b \div 2, n - 1)

RECURSIVE xor16(_, _, _)
xor16(a, b, n) ==
    IF n = 0 THEN 0
    ELSE ((a + b) % 2) + 2 * xor16(a \div 2, b \div 2, n - 1)

not16(a) == (W16 - 1) - a

\* Sparse memories: absent addresses hold 0, only non-zero cells are kept.
rd(mem, a) == IF a \in DOMAIN mem THEN mem[a] ELSE 0

wr(mem, a, v) ==
    IF v = 0
    THEN [x \in (DOMAIN mem) \ {a} |-> mem[x]]
    ELSE [x \in (DOMAIN mem) \cup {a} |-> IF x = a THEN v ELSE mem[x]]

\* ------------------------------------------------------------------ inputs
\* Instruction words the loaded binaries are drawn from.
RTI == 65528
RTL == 65529
DI == 65530
EI == 65531
HLT == 65532
BRK == 65533
DIE == 65535

\* op rA, rB, imm7 for the base operations ldw(0) ldb(1) stw(2) stb(3) beq(4) adi(5)
mkRRI(o, a, b, i) == o * 8192 + (i % 128) * 64 + b * 8 + a

\* jlr sub-operation a (0 sys, 1 jsr, 2 jmp) on rB with a 6-bit immediate
mkJLR(a, b, i) == 57344 + (i % 64) * 64 + b * 8 + a

\* yop o (0 lsp, 1 lio, 2 ssp, 3 sio) rA, rB
mkYOP(o, a, b) == 65024 + o * 64 + b * 8 + a

\* xop o (0 add .. 6 xor) rA, rB, rC
mkXOP(o, a, b, c) == 61440 + o * 512 + c * 64 + b * 8 + a

\* zop o (0 not .. 6 asr) rA
mkZOP(o, a) == 65472 + o * 8 + a

Instrs ==
    { RTI, DI, EI, HLT, BRK, 0,
      mkJLR(0, 0, 8),          \* sys 8
      mkRRI(5, 1, 0, 3),       \* adi r1, r0, 3
      mkRRI(5, 1, 0, 16),      \* adi r1, r0, 16
      mkRRI(5, 1, 0, 40),      \* adi r1, r0, 40
      mkRRI(5, 2, 0, 24),      \* adi r2, r0, 24
      mkRRI(5, 0, 0, 5),       \* adi r0, r0, 5
      mkYOP(0, 3, 1),          \* lsp r3, r1
      mkYOP(0, 0, 2),          \* lsp r0, r2
      mkYOP(2, 1, 1),          \* ssp r1, r1
      mkRRI(2, 1, 0, 0),       \* stw r1, r0, 0
      mkRRI(3, 1, 0, 1),       \* stb r1, r0, 1
      mkRRI(0, 3, 0, 0) }      \* ldw r3, r0, 0

\* Data segments of the loaded binaries (sparse: address -> byte).
NoData == [a \in {} |-> 0]

SomeData == [a \in {0, 1} |-> IF a = 0 THEN 52 ELSE 18]

DataImages == {NoData, SomeData}

\* ------------------------------------------------------------------ stages
\* fetch that does not save the interrupted mode in kernel Imr
fetch_mut(y) ==
    LET d == IF y.ex # 0
             THEN [y EXCEPT !.reg[Kern].spr[Irr] = y.pc,
                            !.reg[Kern].spr[Icr] = y.ex,
                            !.mode = Kern,
                            !.pc = y.ex,
                            !.en = FALSE,
                            !.ex = 0]
             ELSE y
        f == [d EXCEPT !.ir = d.mem[d.mode].imem[d.pc],
                       !.pc = add16(d.pc, 1)]
    IN  IF f.pc = 0 THEN [f EXCEPT !.ex = ExMachine] ELSE f

\* fetch that lets the PC wrap silently
fetch_nowrap(y) ==
    LET d == IF y.ex # 0
             THEN [y EXCEPT !.reg[Kern].spr[Irr] = y.pc,
                            !.reg[Kern].spr[Icr] = y.ex,
                            !.reg[Kern].spr[Imr] = y.mode,
                            !.mode = Kern,
                            !.pc = y.ex,
                            !.en = FALSE,
                            !.ex = 0]
             ELSE y
    IN  [d EXCEPT !.ir = d.mem[d.mode].imem[d.pc],
                  !.pc = add16(d.pc, 1)]

\* Fetch next instruction into ir.
fetch(y) ==
    LET d == IF y.ex # 0
             THEN [y EXCEPT !.reg[Kern].spr[Irr] = y.pc,
                            !.reg[Kern].spr[Icr] = y.ex,
                            !.reg[Kern].spr[Imr] = y.mode,
                            !.mode = Kern,
                            !.pc = y.ex,
                            !.en = FALSE,
                            !.ex = 0]
             ELSE y
        f == [d EXCEPT !.ir = d.mem[d.mode].imem[d.pc],
                       !.pc = add16(d.pc, 1)]
    IN  IF f.pc = 0 THEN [f EXCEPT !.ex = ExMachine] ELSE f

\* assert(y4.en, "double fault in fetch()")
fetchAsserts(y) == y.ex # 0 /\ ~y.en

sxtImm(ir) ==
    LET o == bits(ir, 15, 13)
        neg == bits(ir, 12, 12) # 0
    IN  IF o < 6 THEN (IF neg THEN bits(ir, 12, 6) + 65408 ELSE bits(ir, 12, 6))
        ELSE IF o = 6 THEN (bits(ir, 12, 3) * 64) % W16
        ELSE IF o = 7 /\ ~neg THEN bits(ir, 12, 6)
        ELSE 0

\* decode whose yop test does not exclude the zops
decode_mut(y) ==
    LET isV == bits(y.ir, 15, 3) = 8191
        isZ == ~isV /\ bits(y.ir, 15, 6) = 1023
        isY == ~isV /\ bits(y.ir, 15, 9) = 127
        isX == ~isV /\ ~isZ /\ ~isY /\ bits(y.ir, 15, 12) = 15
    IN  [y EXCEPT !.op = bits(y.ir, 15, 13),
                  !.imm = sxtImm(y.ir),
                  !.xop = bits(y.ir, 11, 9),
                  !.yop = bits(y.ir, 8, 6),
                  !.zop = bits(y.ir, 5, 3),
                  !.vop = bits(y.ir, 2, 0),
                  !.isVop = isV,
                  !.isZop = isZ,
                  !.isYop = isY,
                  !.isXop = isX,
                  !.isBase = ~isV /\ ~isZ /\ ~isY /\ ~isX,
                  !.ra = bits(y.ir, 2, 0),
                  !.rb = bits(y.ir, 5, 3),
                  !.rc = bits(y.ir, 8, 6)]

decode(y) ==
    LET isV == bits(y.ir, 15, 3) = 8191
        isZ == ~isV /\ bits(y.ir, 15, 6) = 1023
        isY == ~isV /\ ~isZ /\ bits(y.ir, 15, 9) = 127
        isX == ~isV /\ ~isZ /\ ~isY /\ bits(y.ir, 15, 12) = 15
    IN  [y EXCEPT !.op = bits(y.ir, 15, 13),
                  !.imm = sxtImm(y.ir),
                  !.xop = bits(y.ir, 11, 9),
                  !.yop = bits(y.ir, 8, 6),
                  !.zop = bits(y.ir, 5, 3),
                  !.vop = bits(y.ir, 2, 0),
                  !.isVop = isV,
                  !.isZop = isZ,
                  !.isYop = isY,
                  !.isXop = isX,
                  !.isBase = ~isV /\ ~isZ /\ ~isY /\ ~isX,
                  !.ra = bits(y.ir, 2, 0),
                  !.rb = bits(y.ir, 5, 3),
                  !.rc = bits(y.ir, 8, 6)]

\* ---------------------------------------------------------- base operations
\* alu <- rB + imm, shared by ldb, stw, stb, adi and the yops
effaddr(y) == [y EXCEPT !.alu = add16(y.reg[y.mode].gen[y.rb], y.imm)]

\* ldw that runs the all-zero word as a load
ldw_mut(y) == effaddr(y)

ldw(y) == IF y.ir = 0 THEN [y EXCEPT !.ex = ExIllegal] ELSE effaddr(y)

ldb(y) == effaddr(y)

stw(y) == effaddr(y)

stb(y) == effaddr(y)

\* beq that adds the immediate without its sign extension
beq_mut(y) ==
    IF y.reg[y.mode].gen[y.rb] = y.reg[y.mode].gen[y.ra]
    THEN [y EXCEPT !.pc = add16(y.pc, y.imm % 128)]
    ELSE y

beq(y) ==
    IF y.reg[y.mode].gen[y.rb] = y.reg[y.mode].gen[y.ra]
    THEN [y EXCEPT !.pc = add16(y.pc, y.imm)]
    ELSE y

adi(y) == effaddr(y)

lui(y) == [y EXCEPT !.alu = y.imm]

\* jlr whose sys flavor accepts trap numbers above 30
jlr_wide(y) ==
    CASE y.ra = 0 ->
            IF y.rb # 0 \/ y.imm % 2 = 1 \/ y.imm = 0
            THEN [y EXCEPT !.ex = ExIllegal]
            ELSE [y EXCEPT !.ex = y.imm]
      [] y.ra = 1 ->
            [y EXCEPT !.reg[y.mode].spr[Link] = y.pc,
                      !.pc = add16(y.reg[y.mode].gen[y.rb], y.imm)]
      [] y.ra = 2 ->
            [y EXCEPT !.pc = add16(y.reg[y.mode].gen[y.rb], y.imm)]
      [] OTHER -> [y EXCEPT !.ex = ExIllegal]

\* jlr whose sys flavor accepts odd trap numbers
jlr_mut(y) ==
    CASE y.ra = 0 ->
            IF y.rb # 0 \/ y.imm = 0 \/ y.imm > 30
            THEN [y EXCEPT !.ex = ExIllegal]
            ELSE [y EXCEPT !.ex = y.imm]
      [] y.ra = 1 ->
            [y EXCEPT !.reg[y.mode].spr[Link] = y.pc,
                      !.pc = add16(y.reg[y.mode].gen[y.rb], y.imm)]
      [] y.ra = 2 ->
            [y EXCEPT !.pc = add16(y.reg[y.mode].gen[y.rb], y.imm)]
      [] OTHER -> [y EXCEPT !.ex = ExIllegal]

jlr(y) ==
    CASE y.ra = 0 ->
            IF y.rb # 0 \/ y.imm % 2 = 1 \/ y.imm = 0 \/ y.imm > 30
            THEN [y EXCEPT !.ex = ExIllegal]
            ELSE [y EXCEPT !.ex = y.imm]
      [] y.ra = 1 ->
            [y EXCEPT !.reg[y.mode].spr[Link] = y.pc,
                      !.pc = add16(y.reg[y.mode].gen[y.rb], y.imm)]
      [] y.ra = 2 ->
            [y EXCEPT !.pc = add16(y.reg[y.mode].gen[y.rb], y.imm)]
      [] OTHER -> [y EXCEPT !.ex = ExIllegal]

\* y4.baseFail() in jlr
jlrFails(y) == bits(y.ir, 15, 12) # 14

\* ------------------------------------------------------------------- xops
\* The sums are formed in uint16 before they are widened to uint32.
alu3(y) ==
    LET rs2 == y.reg[y.mode].gen[y.rc]
        rs1 == y.reg[y.mode].gen[y.rb]
        full == CASE y.xop = 0 -> add16(rs2, rs1)
                  [] y.xop = 1 -> add16(add16(rs2, rs1), y.hc)
                  [] y.xop = 2 -> sub16(rs2, rs1)
                  [] y.xop = 3 -> sub16(sub16(rs2, rs1), y.hc)
                  [] y.xop = 4 -> and16(rs2, not16(rs1), 16)
                  [] y.xop = 5 -> or16(rs2, rs1, 16)
                  [] y.xop = 6 -> xor16(rs2, rs1, 16)
                  [] OTHER -> y.alu
        carry == IF y.xop < 4 THEN bits(full, 16, 16) ELSE 0
    IN  IF y.xop = 7 THEN y
        ELSE [y EXCEPT !.alu = full % W16, !.hc = carry]

\* ------------------------------------------------------------------- yops
lsp(y) == effaddr(y)

lio(y) == effaddr(y)

\* ssp that latches rA as the store data
ssp_mut(y) == [effaddr(y) EXCEPT !.sd = y.reg[y.mode].gen[y.ra]]

ssp(y) == effaddr(y)

sio(y) == effaddr(y)

y04(y) == [y EXCEPT !.ex = ExIllegal]

\* ------------------------------------------------------------------- zops
\* alu1 whose asr shifts in a zero
alu1_mut(y) ==
    LET rs1 == y.reg[y.mode].gen[y.ra]
    IN  CASE y.zop = 0 -> [y EXCEPT !.alu = not16(rs1), !.hc = 0]
          [] y.zop = 1 -> [y EXCEPT !.alu = add16(1, not16(rs1)), !.hc = 0]
          [] y.zop = 2 -> [y EXCEPT !.alu = (rs1 \div 256) + (rs1 % 256) * 256, !.hc = 0]
          [] y.zop = 3 -> [y EXCEPT !.alu = IF bits(rs1, 7, 7) # 0
                                            THEN (rs1 % 256) + 65280
                                            ELSE rs1 % 256,
                                    !.hc = 0]
          [] y.zop = 4 -> [y EXCEPT !.hc = rs1 % 2, !.alu = rs1 \div 2]
          [] y.zop = 5 -> [y EXCEPT !.hc = bits(rs1, 15, 15), !.alu = (rs1 * 2) % W16]
          [] y.zop = 6 -> [y EXCEPT !.hc = rs1 % 2, !.alu = rs1 \div 2]
          [] OTHER -> y

alu1(y) ==
    LET rs1 == y.reg[y.mode].gen[y.ra]
    IN  CASE y.zop = 0 -> [y EXCEPT !.alu = not16(rs1), !.hc = 0]
          [] y.zop = 1 -> [y EXCEPT !.alu = add16(1, not16(rs1)), !.hc = 0]
          [] y.zop = 2 -> [y EXCEPT !.alu = (rs1 \div 256) + (rs1 % 256) * 256, !.hc = 0]
          [] y.zop = 3 -> [y EXCEPT !.alu = IF bits(rs1, 7, 7) # 0
                                            THEN (rs1 % 256) + 65280
                                            ELSE rs1 % 256,
                                    !.hc = 0]
          [] y.zop = 4 -> [y EXCEPT !.hc = rs1 % 2, !.alu = rs1 \div 2]
          [] y.zop = 5 -> [y EXCEPT !.hc = bits(rs1, 15, 15), !.alu = (rs1 * 2) % W16]
          [] y.zop = 6 -> [y EXCEPT !.hc = rs1 % 2,
                                    !.alu = (rs1 \div 2) + bits(rs1, 15, 15) * 32768]
          [] OTHER -> y

\* ------------------------------------------------------------------- vops
\* rti that does not re-enable interrupts
rti_mut(y) ==
    IF y.mode = User THEN [y EXCEPT !.ex = ExIllegal]
    ELSE [y EXCEPT !.ex = 0,
                   !.pc = y.reg[Kern].spr[Irr],
                   !.reg[Kern].spr[Irr] = 0,
                   !.mode = y.reg[Kern].spr[Imr] % 256]

rti(y) ==
    IF y.mode = User THEN [y EXCEPT !.ex = ExIllegal]
    ELSE [y EXCEPT !.ex = 0,
                   !.en = TRUE,
                   !.pc = y.reg[Kern].spr[Irr],
                   !.reg[Kern].spr[Irr] = 0,
                   !.mode = y.reg[Kern].spr[Imr] % 256]

rtl(y) == [y EXCEPT !.pc = y.reg[y.mode].spr[Link]]

di(y) == IF y.mode = User THEN [y EXCEPT !.ex = ExIllegal] ELSE [y EXCEPT !.en = FALSE]

ei(y) == IF y.mode = User THEN [y EXCEPT !.ex = ExIllegal] ELSE [y EXCEPT !.en = TRUE]

\* hlt without the user-mode check
hlt_mut(y) == [y EXCEPT !.run = FALSE]

hlt(y) == IF y.mode = User THEN [y EXCEPT !.ex = ExIllegal] ELSE [y EXCEPT !.run = FALSE]

brk(y) == IF y.mode = User THEN [y EXCEPT !.ex = ExIllegal] ELSE y

v06(y) == [y EXCEPT !.ex = ExIllegal]

die(y) == [y EXCEPT !.ex = ExIllegal]

baseops(y) ==
    CASE y.op = 0 -> ldw(y)
      [] y.op = 1 -> ldb(y)
      [] y.op = 2 -> stw(y)
      [] y.op = 3 -> stb(y)
      [] y.op = 4 -> beq(y)
      [] y.op = 5 -> adi(y)
      [] y.op = 6 -> lui(y)
      [] OTHER -> jlr(y)

yops(y) ==
    CASE y.yop = 0 -> lsp(y)
      [] y.yop = 1 -> lio(y)
      [] y.yop = 2 -> ssp(y)
      [] y.yop = 3 -> sio(y)
      [] OTHER -> y04(y)

vops(y) ==
    CASE y.vop = 0 -> rti(y)
      [] y.vop = 1 -> rtl(y)
      [] y.vop = 2 -> di(y)
      [] y.vop = 3 -> ei(y)
      [] y.vop = 4 -> hlt(y)
      [] y.vop = 5 -> brk(y)
      [] y.vop = 6 -> v06(y)
      [] OTHER -> die(y)

execute(y) ==
    IF y.ex # 0 THEN y
    ELSE IF y.isBase THEN baseops(y)
    ELSE IF y.isXop THEN alu3(y)
    ELSE IF y.isYop THEN yops(y)
    ELSE IF y.isZop THEN alu1(y)
    ELSE vops(y)

\* The internal errors of the execute stage: baseFail, alu3 case 7,
\* yopFail, zopFail and the "vop" decode failure.
decodeFailure(y) ==
    /\ y.ex = 0
    /\ \/ y.isBase /\ y.op = 7 /\ jlrFails(y)
       \/ ~y.isBase /\ y.isXop /\ y.xop = 7
       \/ ~y.isBase /\ ~y.isXop /\ y.isYop /\ y.yop = 7
       \/ ~y.isBase /\ ~y.isXop /\ ~y.isYop /\ y.isZop /\ y.zop = 7
       \/ ~y.isBase /\ ~y.isXop /\ ~y.isYop /\ ~y.isZop /\ ~y.isVop

\* ----------------------------------------------------------- memory stage
sprIndex(y) == y.alu % SprSize

\* The value loadSpecial returns (0 where it raises or where nothing is kept).
loadSpecialValue(y) ==
    LET r == sprIndex(y)
    IN  IF r = PC THEN y.pc
        ELSE IF r = Link THEN y.reg[y.mode].spr[Link]
        ELSE IF r \in {Irr, Icr, Imr, 5}
             THEN (IF y.mode = Kern THEN y.reg[y.mode].spr[r] ELSE 0)
        ELSE IF r = CCLS THEN y.cyc % W16
        ELSE IF r = CCMS THEN (y.cyc \div W16) % W16
        ELSE IF y.mode = User THEN 0
        ELSE IF r >= 16 /\ r < 24 THEN y.reg[User].gen[r - 16]
        ELSE IF r = 25 THEN y.reg[User].spr[Link]
        ELSE 0

\* The cases in which loadSpecial sets y4.ex = ExIllegal.
loadSpecialIllegal(y) ==
    LET r == sprIndex(y)
    IN  /\ y.mode = User
        /\ r \notin {PC, Link, CCLS, CCMS}

\* assert(false, "missing case in loadSpecial()"): the kernel reads an SPR
\* in 24..31 other than 25.
loadSpecialAsserts(y) ==
    LET r == sprIndex(y)
    IN  /\ y.mode = Kern
        /\ r >= 24 /\ r < 32 /\ r # 25

loadSpecial(y) ==
    IF loadSpecialIllegal(y)
    THEN [y EXCEPT !.ex = ExIllegal, !.wb = 0]
    ELSE [y EXCEPT !.wb = loadSpecialValue(y)]

storeSpecial(y, val) ==
    LET r == sprIndex(y)
    IN  IF y.mode = User
        THEN (IF r = Link THEN [y EXCEPT !.reg[User].spr[Link] = val]
              ELSE [y EXCEPT !.ex = ExIllegal])
        ELSE IF r \in {Irr, Icr, Imr, 5} THEN [y EXCEPT !.reg[Kern].spr[r] = val]
        ELSE IF r >= 16 /\ r < 24 THEN [y EXCEPT !.reg[User].gen[r - 16] = val]
        ELSE IF r = 25 THEN [y EXCEPT !.reg[User].spr[Link] = val]
        ELSE IF r >= 32 THEN y
        ELSE [y EXCEPT !.ex = ExIllegal]

\* loadIO is a stub that returns 0
loadIO(y) == [y EXCEPT !.wb = 0]

\* storeIO is a stub
storeIO(y, val) == y

memory(y) ==
    IF y.ex # 0 THEN y
    ELSE LET w == [y EXCEPT !.wb = y.alu]
             dm == y.mem[y.mode].dmem
             a1 == add16(y.alu, 1)
         IN  IF y.op < 4
             THEN CASE y.op = 0 -> [w EXCEPT !.wb = rd(dm, y.alu) + rd(dm, a1) * 256]
                    [] y.op = 1 -> [w EXCEPT !.wb = rd(dm, y.alu)]
                    [] y.op = 2 -> [w EXCEPT !.mem[y.mode].dmem =
                                        wr(wr(dm, y.alu, y.sd % 256), a1, y.sd \div 256)]
                    [] OTHER -> [w EXCEPT !.mem[y.mode].dmem = wr(dm, y.alu, y.sd % 256)]
             ELSE IF y.isYop
             THEN CASE y.yop = 0 -> loadSpecial(w)
                    [] y.yop = 1 -> loadIO(w)
                    [] y.yop = 2 -> storeSpecial(w, y.sd)
                    [] y.yop = 3 -> storeIO(w, y.sd)
                    [] OTHER -> w
             ELSE w

\* memory() reaches the assertion of loadSpecial
memoryAsserts(y) ==
    y.ex = 0 /\ y.op >= 4 /\ y.isYop /\ y.yop = 0 /\ loadSpecialAsserts(y)

\* -------------------------------------------------------- writeback stage
hasWriteback(y) ==
    \/ y.op = 0
    \/ y.op = 1
    \/ y.op = 5
    \/ y.op = 6
    \/ y.isXop
    \/ (y.isYop /\ y.yop < 2)
    \/ y.isZop

\* writeback without the rA # 0 test
writeback_mut(y) ==
    IF y.ex # 0 THEN y
    ELSE IF hasWriteback(y)
         THEN [y EXCEPT !.reg[y.mode].gen[y.ra] = y.wb]
         ELSE y

writeback(y) ==
    IF y.ex # 0 THEN y
    ELSE IF hasWriteback(y) /\ y.ra # 0
         THEN [y EXCEPT !.reg[y.mode].gen[y.ra] = y.wb]
         ELSE y

\* ------------------------------------------------------------ construction
\* The zero-valued machine of func.go with the binaries loaded; the code
\* words of an image are drawn when they are first fetched and then kept.
machine(d) ==
    [cyc |-> 0,
     mem |-> [m \in {User, Kern} |-> [imem |-> [a \in {} |-> 0], dmem |-> d]],
     reg |-> [m \in {User, Kern} |->
                [gen |-> [i \in 0..7 |-> 0], spr |-> [i \in 0..(SprSize - 1) |-> 0]]],
     pc |-> 0, run |-> FALSE, en |-> FALSE, mode |-> User,
     alu |-> 0, sd |-> 0, wb |-> 0, ex |-> 0, ir |-> 0, hc |-> 0,
     op |-> 0, imm |-> 0, xop |-> 0, yop |-> 0, zop |-> 0, vop |-> 0,
     isXop |-> FALSE, isYop |-> FALSE, isZop |-> FALSE, isVop |-> FALSE,
     isBase |-> FALSE, ra |-> 0, rb |-> 0, rc |-> 0]

\* reset that leaves kernel mode in Imr
reset_mut(y) ==
    [y EXCEPT !.cyc = 0, !.pc = 0, !.run = TRUE, !.mode = Kern, !.ex = 0,
              !.en = FALSE, !.reg[Kern].spr[Imr] = Kern]

\* Reset the simulated hardware
reset(y) ==
    [y EXCEPT !.cyc = 0, !.pc = 0, !.run = TRUE, !.mode = Kern, !.ex = 0,
              !.en = FALSE, !.reg[Kern].spr[Imr] = User]

Init ==
    /\ \E d \in DataImages : y4 = reset(machine(d))
    /\ dbEnabled \in BOOLEAN
    /\ blockedForInput = FALSE
    /\ status = "reset"
    /\ itf = [at |-> "none"]
    /\ xl = [at |-> "none"]

\* ------------------------------------------------------------------- loop
\* prompt(): the answer c continues, s single-steps, x exits.
prompt(c) ==
    CASE c = "c" -> [run |-> TRUE, db |-> FALSE]
      [] c = "s" -> [run |-> TRUE, db |-> TRUE]
      [] OTHER -> [run |-> FALSE, db |-> dbEnabled]

\* The line printed after the loop.
haltMsg(y) == IF y.ex # 0 /\ ~y.en THEN "double fault" ELSE "halt"

\* a loop that never breaks on a double fault
doubleFault_mut(y) == FALSE

\* if y4.ex != 0 && !y4.en { break }
doubleFault(y) == y.ex # 0 /\ ~y.en

\* Where fetch reads the next code word.
fetchMode(y) == IF y.ex # 0 THEN Kern ELSE y.mode

fetchAddr(y) == IF y.ex # 0 THEN y.ex ELSE y.pc

\* The image of mode m holds word w at address a.
image(y, m, a, w) ==
    LET im == y.mem[m].imem
    IN  [y EXCEPT !.mem[m].imem =
            [x \in (DOMAIN im) \cup {a} |-> IF x = a THEN w ELSE im[x]]]

\* simulate(): entry into the loop
simulateStart ==
    /\ status = "reset"
    /\ y4.ex = 0
    /\ y4' = [y4 EXCEPT !.cyc = y4.cyc + 1]
    /\ status' = "loop"
    /\ UNCHANGED <<dbEnabled, blockedForInput, itf, xl>>

\* simulate(): one iteration of the loop, up to the next test of y4.run, on
\* binaries whose code words are drawn from words
cycle(words, maxCycles) ==
    /\ status = "loop"
    /\ y4.run
    /\ y4.cyc <= maxCycles
    /\ UNCHANGED <<itf, xl>>
    /\ \E w \in (IF fetchAddr(y4) \in DOMAIN y4.mem[fetchMode(y4)].imem
                 THEN {y4.mem[fetchMode(y4)].imem[fetchAddr(y4)]}
                 ELSE words) :
           \E dd \in {decode(fetch(image(y4, fetchMode(y4), fetchAddr(y4), w)))} :
           \E x \in {execute(dd)} :
           \E z \in {writeback(memory(x))} :
           \E c \in (IF dbEnabled THEN {"c", "s", "x"} ELSE {"c"}) :
               IF fetchAsserts(y4)
               THEN /\ y4' = y4
                    /\ status' = "panic"
                    /\ UNCHANGED <<dbEnabled, blockedForInput>>
               ELSE IF decodeFailure(dd)
               THEN /\ y4' = dd
                    /\ status' = "panic"
                    /\ UNCHANGED <<dbEnabled, blockedForInput>>
               ELSE IF memoryAsserts(x)
               THEN /\ y4' = [x EXCEPT !.wb = x.alu]
                    /\ status' = "panic"
                    /\ UNCHANGED <<dbEnabled, blockedForInput>>
               ELSE IF doubleFault(z)
               THEN /\ y4' = z
                    /\ status' = haltMsg(z)
                    /\ UNCHANGED <<dbEnabled, blockedForInput>>
               ELSE IF dbEnabled
               THEN /\ y4' = [z EXCEPT !.run = prompt(c).run, !.cyc = z.cyc + 1]
                    /\ dbEnabled' = prompt(c).db
                    /\ blockedForInput' = TRUE
                    /\ status' = IF prompt(c).run THEN "loop" ELSE haltMsg(z)
               ELSE /\ y4' = [z EXCEPT !.cyc = z.cyc + 1]
                    /\ status' = IF z.run THEN "loop" ELSE haltMsg(z)
                    /\ UNCHANGED <<dbEnabled, blockedForInput>>

\* The loop running binaries over Instrs
simulateCycle == cycle(Instrs, MaxCycles)

\* The goroutine of main() that receives os.Interrupt
sigint ==
    /\ status \in {"reset", "loop"}
    /\ ~dbEnabled
    /\ dbEnabled' = TRUE
    /\ UNCHANGED <<y4, blockedForInput, status, itf, xl>>

Next == simulateStart \/ simulateCycle \/ sigint

Spec == Init /\ [][Next]_vars

\* ------------------------------------------------- traps and reserved words
\* Binaries of sys words and of reserved or illegal words.
V06 == 65534

SysWords ==
    { mkJLR(0, b, n) : b \in {0, 1}, n \in {0, 1, 2, 3, 16, 29, 30, 31, 32, 34, 63} }

IllegalWords ==
    { 0, 65280, 65289, 65343, 65344, 65417, 65471,    \* 0x0000, y04, y05, y06
      V06, DIE,
      mkJLR(3, 0, 0), mkJLR(4, 1, 2), mkJLR(7, 1, 9) }

SysInstrs == {RTI, EI} \cup SysWords \cup IllegalWords

simulateSys == cycle(SysInstrs, MaxSysCycles)

NextSys == simulateStart \/ simulateSys \/ sigint

SpecSys == Init /\ [][NextSys]_vars

\* ------------------------------------------------------ branches and wrap
\* Binaries of branches, with the means to enable interrupts and to reach
\* code address 16.
BranchInstrs ==
    { RTI, EI,
      mkRRI(4, 0, 0, 125),     \* beq r0, r0, -3
      mkRRI(4, 0, 0, 126),     \* beq r0, r0, -2
      mkRRI(4, 0, 0, 127),     \* beq r0, r0, 0x7F
      mkRRI(4, 1, 0, 5),       \* beq r1, r0, 5
      mkRRI(5, 1, 0, 16),      \* adi r1, r0, 16
      mkJLR(2, 1, 0) }         \* jmp r1

simulateBranch == cycle(BranchInstrs, MaxBranchCycles)

NextBranch == simulateStart \/ simulateBranch \/ sigint

SpecBranch == Init /\ [][NextBranch]_vars

\* ------------------------------------------------------------- arithmetic
\* Binaries of carry arithmetic and single-bit shifts on 0xFFFF and 1.
AluInstrs ==
    { RTI,
      mkRRI(5, 1, 0, 127),     \* adi r1, r0, -1
      mkRRI(5, 2, 0, 1),       \* adi r2, r0, 1
      mkXOP(1, 3, 2, 1),       \* adc r3, r2, r1
      mkXOP(3, 3, 1, 2),       \* sbb r3, r1, r2
      mkZOP(4, 1),             \* lsr r1
      mkZOP(5, 1),             \* lsl r1
      mkZOP(6, 1) }            \* asr r1

simulateAlu == cycle(AluInstrs, MaxAluCycles)

NextAlu == simulateStart \/ simulateAlu \/ sigint

SpecAlu == Init /\ [][NextAlu]_vars

\* ------------------------------------------------------ special registers
\* Binaries that load user registers and reach them from the kernel through
\* SPR 17 (user r1) and SPR 25 (user Link).
SprInstrs ==
    { RTI,
      mkJLR(0, 0, 8),          \* sys 8
      mkRRI(5, 1, 0, 17),      \* adi r1, r0, 17
      mkRRI(5, 1, 0, 25),      \* adi r1, r0, 25
      mkYOP(2, 1, 1),          \* ssp r1, r1
      mkYOP(0, 3, 1) }         \* lsp r3, r1

simulateSpr == cycle(SprInstrs, MaxSprCycles)

NextSpr == simulateStart \/ simulateSpr \/ sigint

SpecSpr == Init /\ [][NextSpr]_vars

\* -------------------------------------------------------------------- MMU
\* Physical memory in words: the kernel region at 0 and the user region at
\* 3 * 64 KiB, each of 128 KiB of code and 64 KiB of data.
PhysMemSize == 196608

ExNone == 0

\* translate that reads the code table for data addresses too
translate_mut(y, isData, virtAddr) ==
    LET sprOffset == 32 + (virtAddr \div 4096)
        upper == y.reg[y.mode].spr[sprOffset] % 4096
        lower == virtAddr % 4096
        whole == upper * 4096 + lower
        result == IF isData THEN whole \div 2 ELSE whole
    IN  [ex |-> IF result > PhysMemSize THEN ExMemory ELSE ExNone, paddr |-> result]

\* Virtual to physical address translation
translate(y, isData, virtAddr) ==
    LET sprOffset == 32 + (IF isData THEN 16 ELSE 0) + (virtAddr \div 4096)
        upper == y.reg[y.mode].spr[sprOffset] % 4096
        lower == virtAddr % 4096
        whole == upper * 4096 + lower
        result == IF isData THEN whole \div 2 ELSE whole
    IN  [ex |-> IF result > PhysMemSize THEN ExMemory ELSE ExNone, paddr |-> result]

\* Contents of the 64 SPRs of a mode: the reset contents, one code page at
\* 0x100, a table per page, a table at the end of physical memory, and a
\* table whose entries have bits above the low 12.
MmuImages ==
    { [i \in 0..(SprSize - 1) |-> 0],
      [i \in 0..(SprSize - 1) |-> IF i = 32 THEN 256 ELSE 0],
      [i \in 0..(SprSize - 1) |-> IF i < 32 THEN 0 ELSE IF i < 48 THEN i - 32 ELSE i],
      [i \in 0..(SprSize - 1) |-> IF i < 32 THEN 0
                                  ELSE IF i < 48 THEN PhysMemSize \div 4096
                                  ELSE 2 * (PhysMemSize \div 4096)],
      [i \in 0..(SprSize - 1) |-> IF i < 32 THEN 0 ELSE 61441] }

VirtAddrs == {0, 1, 564, 4095, 4096, 4660, 61440, 65535}

\* The machine with translate about to be applied.
InitMmu ==
    /\ \E iu \in MmuImages, ik \in MmuImages, md \in {User, Kern} :
          y4 = [reset(machine(NoData)) EXCEPT !.mode = md,
                                             !.reg[User].spr = iu,
                                             !.reg[Kern].spr = ik]
    /\ dbEnabled = FALSE
    /\ blockedForInput = FALSE
    /\ status = "reset"
    /\ itf = [at |-> "none"]
    /\ \E d \in BOOLEAN, v \in VirtAddrs : xl = [at |-> "call", isData |-> d, vaddr |-> v]

translateCall ==
    /\ xl.at = "call"
    /\ \E t \in {translate(y4, xl.isData, xl.vaddr)} :
          xl' = [at |-> "done", isData |-> xl.isData, vaddr |-> xl.vaddr,
                 ex |-> t.ex, paddr |-> t.paddr]
    /\ UNCHANGED <<y4, dbEnabled, blockedForInput, status, itf>>

NextMmu == translateCall

SpecMmu == InitMmu /\ [][NextMmu]_vars

\* ============================================ round trip (src/itf, asm, dis)
\* Tokens of a source text; the comma is white space to the lexer.
Tk(k, t, v) == [kind |-> k, text |-> t, value |-> v]

Sym(t) == Tk("Symbol", t, 0)

Num(v) == Tk("Number", "", v)

NL == Tk("Newline", "", 0)

\* ------------------------------------------------------------- assembler
SeNone == 0
SeReg == 1
SeImm6 == 2
SeImm7 == 3
SeImm10 == 4
SeVal16 == 5
SeSym == 6

\* sigFor as written: the ra argument is not used, rc is used twice
sigFor(ra, rb, rc) == ((rc % 16) * 256) + ((rb % 16) * 16) + (rc % 16)

numOperands(sigHolder) ==
    IF sigHolder = 0 THEN 0
    ELSE IF sigHolder < 16 THEN 1
    ELSE IF sigHolder < 256 THEN 2
    ELSE IF sigHolder < 4096 THEN 3
    ELSE 4

asmKeyTable ==
    << <<"adi", sigFor(SeReg, SeReg, SeImm7)>>,
       <<"beq", sigFor(SeReg, SeReg, SeImm7)>>,
       <<"lb", sigFor(SeReg, SeReg, SeImm7)>>,
       <<"lw", sigFor(SeReg, SeReg, SeImm7)>>,
       <<"sb", sigFor(SeReg, SeReg, SeImm7)>>,
       <<"sw", sigFor(SeReg, SeReg, SeImm7)>>,
       <<"lli", sigFor(SeReg, SeReg, SeImm6)>>,
       <<"lui", sigFor(SeReg, SeImm10, SeNone)>>,
       <<"add", sigFor(SeReg, SeReg, SeReg)>>,
       <<"sub", sigFor(SeReg, SeReg, SeReg)>>,
       <<"addc", sigFor(SeReg, SeReg, SeReg)>>,
       <<"subb", sigFor(SeReg, SeReg, SeReg)>>,
       <<"nand", sigFor(SeReg, SeReg, SeReg)>>,
       <<"or", sigFor(SeReg, SeReg, SeReg)>>,
       <<"xor", sigFor(SeReg, SeReg, SeReg)>>,
       <<"jalr", sigFor(SeReg, SeReg, SeNone)>>,
       <<"not", sigFor(SeReg, SeNone, SeNone)>>,
       <<"nop", sigFor(SeNone, SeNone, SeNone)>>,
       <<"hlt", sigFor(SeNone, SeNone, SeNone)>>,
       <<"neg", sigFor(SeReg, SeNone, SeNone)>>,
       <<"li", sigFor(SeReg, SeVal16, SeNone)>>,
       <<".align", sigFor(SeVal16, SeNone, SeNone)>>,
       <<".byte", sigFor(SeVal16, SeNone, SeNone)>>,
       <<".word", sigFor(SeVal16, SeNone, SeNone)>>,
       <<".space", sigFor(SeVal16, SeNone, SeNone)>>,
       <<".set", sigFor(SeSym, SeVal16, SeNone)>> >>

asmRegNames == <<"r0", "r1", "r2", "r3", "r4", "r5", "r6", "r7">>

\* SymbolTable.Get on the table MakeSymbolTable builds (registers, then keys)
symGet(name) ==
    IF \E i \in 1..8 : asmRegNames[i] = name
    THEN [ok |-> TRUE, value |-> (CHOOSE i \in 1..8 : asmRegNames[i] = name) - 1]
    ELSE IF \E i \in 1..Len(asmKeyTable) : asmKeyTable[i][1] = name
    THEN [ok |-> TRUE,
          value |-> asmKeyTable[CHOOSE i \in 1..Len(asmKeyTable) : asmKeyTable[i][1] = name][2]]
    ELSE [ok |-> FALSE, value |-> 32767]

\* report(): count the error and enter the error state
report(ctx) == [ctx EXCEPT !.state = "StError", !.errorCount = ctx.errorCount + 1]

doErrorState(ctx, t) ==
    IF t.kind = "Newline" THEN [ctx EXCEPT !.state = "StStartLine"] ELSE ctx

doHaveLabelState(ctx, t) ==
    IF t.kind = "Symbol"
    THEN (IF symGet(t.text).ok
          THEN [ctx EXCEPT !.state = "StHaveKey", !.opindex = 0,
                           !.signature = symGet(t.text).value]
          ELSE report(ctx))
    ELSE report(ctx)

doStartLineState(ctx, t) ==
    CASE t.kind = "Newline" -> ctx
      [] t.kind = "Label" -> [ctx EXCEPT !.state = "StHaveLabel"]
      [] t.kind = "Symbol" -> doHaveLabelState([ctx EXCEPT !.state = "StHaveLabel"], t)
      [] OTHER -> report(ctx)

doNeedLineEndState(ctx, t) == [ctx EXCEPT !.state = "StNeedNewline"]

\* ctx.operands is the empty slice, so storing an operand text indexes
\* out of range
doHaveOpState(ctx, t) ==
    LET c == IF ctx.opindex >= numOperands(ctx.signature)
             THEN doNeedLineEndState(ctx, t)
             ELSE ctx
    IN  IF t.kind \in {"Symbol", "Label"} THEN [c EXCEPT !.panic = TRUE] ELSE c

parseToken(ctx, t) ==
    IF ctx.panic THEN ctx
    ELSE IF t.kind = "Error" THEN report(ctx)
    ELSE CASE ctx.state = "StError" -> doErrorState(ctx, t)
           [] ctx.state = "StStartLine" -> doStartLineState(ctx, t)
           [] ctx.state = "StHaveLabel" -> doHaveLabelState(ctx, t)
           [] ctx.state = "StHaveKey" -> doHaveOpState(ctx, t)
           [] OTHER -> doNeedLineEndState(ctx, t)

RECURSIVE parseTokens(_, _)
parseTokens(ctx, toks) ==
    IF toks = <<>> THEN ctx
    ELSE parseTokens(parseToken(ctx, Head(toks)), Tail(toks))

\* The token stream of a text: each line's tokens and its Newline.
RECURSIVE tokens(_)
tokens(lines) ==
    IF lines = <<>> THEN <<>>
    ELSE Head(lines) \o <<NL>> \o tokens(Tail(lines))

\* parse(): no MachineInstruction is ever appended to ctx.instructions
parse(lines) ==
    LET ctx == parseTokens([state |-> "StStartLine", errorCount |-> 0, opindex |-> 0,
                            signature |-> 0, panic |-> FALSE], tokens(lines))
        eof == IF ~ctx.panic /\ ctx.state # "StStartLine" THEN report(ctx) ELSE ctx
    IN  [instructions |-> <<>>, err |-> eof.errorCount # 0, panic |-> eof.panic]

\* generate(): not implemented, creates no file
generate(instructions, fs) == [err |-> FALSE, files |-> fs]

\* Options the assembler defines
asmFlags == {"d"}

\* main() of the assembler: exit status and the files it leaves
asmMain(opts, path, fs) ==
    IF ~(opts \subseteq asmFlags) THEN [exit |-> 2, files |-> fs]
    ELSE IF path \notin DOMAIN fs THEN [exit |-> 2, files |-> fs]
    ELSE LET p == parse(fs[path])
         IN  IF p.panic \/ p.err THEN [exit |-> 2, files |-> fs]
             ELSE [exit |-> IF generate(p.instructions, fs).err THEN 2 ELSE 0,
                   files |-> generate(p.instructions, fs).files]

\* ----------------------------------------------------------- disassembler
RRI == 307
RJX == 35
RRR == 819
SRX == 52
RRX == 51
RXX == 3
XXX == 0

disKeyTable ==
    << <<"ldw", 3, 0, RRI>>, <<"ldb", 3, 8192, RRI>>, <<"stw", 3, 16384, RRI>>,
       <<"stb", 3, 24576, RRI>>, <<"beq", 3, 32768, RRI>>, <<"adi", 3, 40960, RRI>>,
       <<"lui", 3, 49152, RJX>>, <<"jlr", 4, 57344, RRI>>,
       <<"add", 7, 61440, RRR>>, <<"adc", 7, 61952, RRR>>, <<"sub", 7, 62464, RRR>>,
       <<"sbb", 7, 62976, RRR>>, <<"bic", 7, 63488, RRR>>, <<"bis", 7, 64000, RRR>>,
       <<"xor", 7, 64512, RRR>>,
       <<"wrs", 10, 65024, SRX>>, <<"rds", 10, 65088, SRX>>, <<"lds", 10, 65152, SRX>>,
       <<"sts", 10, 65216, SRX>>, <<"ior", 10, 65280, RRX>>, <<"iow", 10, 65344, RRX>>,
       <<"FF8", 10, 65408, XXX>>,
       <<"not", 13, 65472, RXX>>, <<"neg", 13, 65480, RXX>>, <<"sxt", 13, 65488, RXX>>,
       <<"swb", 13, 65496, RXX>>, <<"lsr", 13, 65504, RXX>>, <<"lsl", 13, 65512, RXX>>,
       <<"asr", 13, 65520, RXX>>,
       <<"sys", 16, 65528, XXX>>, <<"srt", 16, 65529, XXX>>, <<"FFA", 16, 65530, XXX>>,
       <<"FFB", 16, 65531, XXX>>, <<"rtl", 16, 65532, XXX>>, <<"brk", 16, 65533, XXX>>,
       <<"hlt", 16, 65534, XXX>>, <<"die", 16, 65535, XXX>> >>

disRegNames == <<"r0", "r1", "r2", "r3", "r4", "r5", "r6", "r7">>

disSprNames == <<"psw", "lnk", "pc", "err3", "err4", "err5", "err6", "err7">>

\* entry ke recognizes op by its top nbits
keyMatches(ke, op) == op \div pow2(16 - ke[2]) = ke[3] \div pow2(16 - ke[2])

\* decode(): the tokens of the printed line
disDecode(op) ==
    IF ~\E i \in 1..Len(disKeyTable) : keyMatches(disKeyTable[i], op)
    THEN <<Sym("internal error: opcode not found")>>
    ELSE LET i == CHOOSE j \in 1..Len(disKeyTable) :
                     /\ keyMatches(disKeyTable[j], op)
                     /\ \A k \in 1..(j - 1) : ~keyMatches(disKeyTable[k], op)
             found == disKeyTable[i]
             ra == disRegNames[bits(op, 2, 0) + 1]
             rb == disRegNames[bits(op, 5, 3) + 1]
             rc == disRegNames[bits(op, 8, 6) + 1]
             args == CASE found[4] = RRI
                              -> <<Sym(ra), Sym(rb), Num(bits(op, 12, 6))>>
                       [] found[4] = RJX -> <<Sym(ra), Num(bits(op, 12, 3))>>
                       [] found[4] = RRR -> <<Sym(ra), Sym(rb), Sym(rc)>>
                       [] found[4] = SRX -> <<Sym(disSprNames[bits(op, 2, 0) + 1]), Sym(rb)>>
                       [] found[4] = RRX -> <<Sym(ra), Sym(rb)>>
                       [] found[4] = RXX -> <<Sym(ra)>>
                       [] OTHER -> <<>>
         IN  <<Sym(found[1])>> \o args

\* isCombinable(): not implemented, answers false for every pair
isCombinable(prevInst, thisInst) == FALSE

\* decodeCombined(): not implemented
decodeCombined(prevInst, thisInst) ==
    <<Sym("TODO: decode combined instruction patterns")>>

\* The loop of disassemble(): the lines printed so far, then the held line
\* prevLine of prevInst; it ends at the first zero word or at end of file.
RECURSIVE disLoop(_, _, _, _)
disLoop(words, prevInst, prevLine, out) ==
    LET flush == IF prevLine # <<>> THEN Append(out, <<Num(prevInst)>> \o prevLine)
                 ELSE out
    IN  IF words = <<>> \/ Head(words) = 0 THEN flush
        ELSE IF isCombinable(prevInst, Head(words))
        THEN disLoop(Tail(words), Head(words),
                     decodeCombined(prevInst, Head(words)), out)
        ELSE disLoop(Tail(words), Head(words), disDecode(Head(words)), flush)

\* disassemble(): one line "0x%02X %s" per held line
disassemble(words) == disLoop(words, 0, <<>>, <<>>)

\* Options the disassembler defines
disFlags == {"d"}

\* main() of the disassembler: exit status and standard output
disMain(opts, path, fs) ==
    IF ~(opts \subseteq disFlags) THEN [exit |-> 2, out |-> <<>>]
    ELSE IF path \notin DOMAIN fs THEN [exit |-> 2, out |-> <<>>]
    ELSE [exit |-> 0, out |-> disassemble(fs[path])]

\* ----------------------------------------------------------------- driver
\* a file is created or replaced
put(fs, name, content) ==
    [n \in (DOMAIN fs) \cup {name} |-> IF n = name THEN content ELSE fs[n]]

\* asm -o targetPath sourcePath
runAssembler(fs, sourcePath, targetPath) ==
    LET r == asmMain({"o"}, sourcePath, fs)
    IN  [err |-> r.exit # 0, files |-> r.files]

\* dis -q sourcePath > targetPath
runDisassembler(fs, sourcePath, targetPath) ==
    LET r == disMain({"q"}, sourcePath, fs)
    IN  [err |-> r.exit # 0, files |-> put(fs, targetPath, r.out)]

\* cmp origBinPath reassembledBinPath
runCompare(fs, origBinPath, reassembledBinPath) ==
    [err |-> \/ origBinPath \notin DOMAIN fs
             \/ reassembledBinPath \notin DOMAIN fs
             \/ fs[origBinPath] # fs[reassembledBinPath],
     files |-> fs]

\* Well-formed sources: up to MaxLines lines over these instructions.
MaxLines == 3

SourceLines ==
    { <<Sym("hlt")>>, <<Sym("nop")>>, <<Sym("not"), Sym("r1")>>,
      <<Sym("add"), Sym("r1"), Sym("r2"), Sym("r3")>>,
      <<Sym("adi"), Sym("r1"), Sym("r0"), Num(5)>> }

Sources == UNION {[1..n -> SourceLines] : n \in 1..MaxLines}

InitItf ==
    /\ y4 = reset(machine(NoData))
    /\ dbEnabled = FALSE
    /\ blockedForInput = FALSE
    /\ status = "reset"
    /\ xl = [at |-> "none"]
    /\ \E s \in Sources :
          itf = [at |-> "start", files |-> [n \in {"source.y4a"} |-> s], result |-> ""]

\* main() of the round-trip driver
itfMain ==
    /\ itf.at = "start"
    /\ \E a \in {runAssembler(itf.files, "source.y4a", "y4.out")} :
       \E d \in {runDisassembler(a.files, "y4.out", "y4.dis")} :
       \E r \in {runAssembler(d.files, "y4.dis", "y4.out2")} :
       \E c \in {runCompare(r.files, "y4.out", "y4.out2")} :
          itf' = IF a.err
                 THEN [at |-> "done", files |-> a.files, result |-> "fatal: asm"]
                 ELSE IF d.err
                 THEN [at |-> "done", files |-> d.files, result |-> "fatal: dis"]
                 ELSE IF r.err
                 THEN [at |-> "done", files |-> r.files, result |-> "fatal: reassemble"]
                 ELSE IF c.err
                 THEN [at |-> "done", files |-> c.files, result |-> "fatal: compare"]
                 ELSE [at |-> "done", files |-> c.files, result |-> "passed"]
    /\ UNCHANGED <<y4, dbEnabled, blockedForInput, status, xl>>

NextItf == itfMain

SpecItf == InitItf /\ [][NextItf]_vars

\* ================================== listing disassembler (src/unnamed/part_001)
\* Instruction argument shapes
lstRRI == 1
lstRJX == 2
lstRRR == 3
lstSRX == 4
lstRRX == 5
lstRXX == 6
lstXXX == 7
lstRHI == 8

\* a key table in which the jlr entry is recognized by three bits only
KeyTable_mut ==
    << <<"ldw", 3, 0, lstRRI>>, <<"ldb", 3, 8192, lstRRI>>, <<"stw", 3, 16384, lstRRI>>,
       <<"stb", 3, 24576, lstRRI>>, <<"beq", 3, 32768, lstRRI>>, <<"adi", 3, 40960, lstRRI>>,
       <<"lui", 3, 49152, lstRJX>>, <<"BUG", 3, 57344, lstRHI>>,
       <<"add", 7, 61440, lstRRR>>, <<"adc", 7, 61952, lstRRR>>, <<"sub", 7, 62464, lstRRR>>,
       <<"sbb", 7, 62976, lstRRR>>, <<"bic", 7, 63488, lstRRR>>, <<"bis", 7, 64000, lstRRR>>,
       <<"xor", 7, 64512, lstRRR>>,
       <<"lds", 10, 65024, lstSRX>>, <<"sts", 10, 65088, lstSRX>>, <<"rds", 10, 65152, lstSRX>>,
       <<"wrs", 10, 65216, lstSRX>>, <<"ior", 10, 65280, lstRRX>>, <<"iow", 10, 65344, lstRRX>>,
       <<"y07", 10, 65408, lstXXX>>,
       <<"not", 13, 65472, lstRXX>>, <<"neg", 13, 65480, lstRXX>>, <<"sxt", 13, 65488, lstRXX>>,
       <<"swb", 13, 65496, lstRXX>>, <<"lsr", 13, 65504, lstRXX>>, <<"lsl", 13, 65512, lstRXX>>,
       <<"asr", 13, 65520, lstRXX>>,
       <<"rti", 16, 65528, lstXXX>>, <<"rtl", 16, 65529, lstXXX>>, <<"di ", 16, 65530, lstXXX>>,
       <<"ei ", 16, 65531, lstXXX>>, <<"hlt", 16, 65532, lstXXX>>, <<"brk", 16, 65533, lstXXX>>,
       <<"v06", 16, 65534, lstXXX>>, <<"die", 16, 65535, lstXXX>> >>

\* The allowed mnemonics: name, nbits, opcode, signature
KeyTable ==
    << <<"ldw", 3, 0, lstRRI>>, <<"ldb", 3, 8192, lstRRI>>, <<"stw", 3, 16384, lstRRI>>,
       <<"stb", 3, 24576, lstRRI>>, <<"beq", 3, 32768, lstRRI>>, <<"adi", 3, 40960, lstRRI>>,
       <<"lui", 3, 49152, lstRJX>>, <<"BUG", 4, 57344, lstRHI>>,
       <<"add", 7, 61440, lstRRR>>, <<"adc", 7, 61952, lstRRR>>, <<"sub", 7, 62464, lstRRR>>,
       <<"sbb", 7, 62976, lstRRR>>, <<"bic", 7, 63488, lstRRR>>, <<"bis", 7, 64000, lstRRR>>,
       <<"xor", 7, 64512, lstRRR>>,
       <<"lds", 10, 65024, lstSRX>>, <<"sts", 10, 65088, lstSRX>>, <<"rds", 10, 65152, lstSRX>>,
       <<"wrs", 10, 65216, lstSRX>>, <<"ior", 10, 65280, lstRRX>>, <<"iow", 10, 65344, lstRRX>>,
       <<"y07", 10, 65408, lstXXX>>,
       <<"not", 13, 65472, lstRXX>>, <<"neg", 13, 65480, lstRXX>>, <<"sxt", 13, 65488, lstRXX>>,
       <<"swb", 13, 65496, lstRXX>>, <<"lsr", 13, 65504, lstRXX>>, <<"lsl", 13, 65512, lstRXX>>,
       <<"asr", 13, 65520, lstRXX>>,
       <<"rti", 16, 65528, lstXXX>>, <<"rtl", 16, 65529, lstXXX>>, <<"di ", 16, 65530, lstXXX>>,
       <<"ei ", 16, 65531, lstXXX>>, <<"hlt", 16, 65532, lstXXX>>, <<"brk", 16, 65533, lstXXX>>,
       <<"v06", 16, 65534, lstXXX>>, <<"die", 16, 65535, lstXXX>> >>

lstRegNames == <<"r0", "r1", "r2", "r3", "r4", "r5", "r6", "r7">>

\* seven names only: index 7 is out of range
lstSprNames == <<"pc", "lnk", "err3", "err4", "err5", "err6", "err7">>

\* the entries of the key table whose top nbits equal those of op
matching(op) == { i \in 1..Len(KeyTable) : keyMatches(KeyTable[i], op) }

\* the entry the scan of decode() stops at; 0 when the scan finds none
found(op) ==
    IF matching(op) = {} THEN 0
    ELSE CHOOSE i \in matching(op) : \A k \in matching(op) : i <= k

\* the tokens of the line decodeJLR returns
decodeJLR(op) ==
    LET imm == bits(op, 12, 6)
        ra == bits(op, 2, 0)
        rb == bits(op, 5, 3)
    IN  IF imm < 64 /\ imm % 2 = 0 /\ rb = 0 /\ ra = 0
        THEN <<Sym("sys"), Num(imm)>>
        ELSE IF ra # 0 /\ rb = 0
        THEN (IF imm = 0 THEN <<Sym("jsr"), Sym(lstRegNames[ra + 1])>>
              ELSE <<Sym("jsr"), Sym(lstRegNames[ra + 1]), Num(imm)>>)
        ELSE IF ra # 0 /\ rb = 1
        THEN (IF imm = 0 THEN <<Sym("jmp"), Sym(lstRegNames[ra + 1])>>
              ELSE <<Sym("jmp"), Sym(lstRegNames[ra + 1]), Num(imm)>>)
        ELSE <<Sym("die"), Sym("; ILLEGAL OPCODE"), Num(op)>>

\* decode() indexes SprNames beyond its end: the program panics
lstDecodePanics(op) ==
    /\ found(op) # 0
    /\ KeyTable[found(op)][4] = lstSRX
    /\ bits(op, 2, 0) + 1 > Len(lstSprNames)

\* the tokens of the line decode(op, at) returns
lstDecode(op, at) ==
    IF found(op) = 0 THEN <<Sym("internal error: opcode not found")>>
    ELSE LET ke == KeyTable[found(op)]
             ra == lstRegNames[bits(op, 2, 0) + 1]
             rb == lstRegNames[bits(op, 5, 3) + 1]
             rc == lstRegNames[bits(op, 8, 6) + 1]
             imm == IF bits(op, 15, 13) = 4
                    THEN (bits(op, 12, 6) + at + 1) % 128
                    ELSE bits(op, 12, 6)
         IN  CASE ke[4] = lstRHI -> decodeJLR(op)
               [] ke[4] = lstRRI -> <<Sym(ke[1]), Sym(ra), Sym(rb), Num(imm)>>
               [] ke[4] = lstRJX -> <<Sym(ke[1]), Sym(ra), Num(bits(op, 12, 3))>>
               [] ke[4] = lstRRR -> <<Sym(ke[1]), Sym(ra), Sym(rb), Sym(rc)>>
               [] ke[4] = lstSRX ->
                      IF lstDecodePanics(op) THEN <<Sym("panic: index out of range")>>
                      ELSE <<Sym(ke[1]), Sym(lstSprNames[bits(op, 2, 0) + 1]), Sym(rb)>>
               [] ke[4] = lstRRX -> <<Sym(ke[1]), Sym(ra), Sym(rb)>>
               [] ke[4] = lstRXX -> <<Sym(ke[1]), Sym(ra)>>
               [] OTHER -> <<Sym(ke[1])>>

\* The handler the execute stage of the simulator dispatches a decoded
\* instruction to, with the trap number for sys.
dispatch(y) ==
    IF y.isBase
    THEN CASE y.op = 0 -> <<"ldw">>
           [] y.op = 1 -> <<"ldb">>
           [] y.op = 2 -> <<"stw">>
           [] y.op = 3 -> <<"stb">>
           [] y.op = 4 -> <<"beq">>
           [] y.op = 5 -> <<"adi">>
           [] y.op = 6 -> <<"lui">>
           [] OTHER -> IF jlr(y).ex = ExIllegal THEN <<"illegal">>
                       ELSE IF y.ra = 0 THEN <<"sys", y.imm>>
                       ELSE IF y.ra = 1 THEN <<"jsr">>
                       ELSE <<"jmp">>
    ELSE IF y.isXop
    THEN <<(<<"add", "adc", "sub", "sbb", "bic", "bis", "xor", "alu3 fail">>)[y.xop + 1]>>
    ELSE IF y.isYop
    THEN <<(<<"lsp", "lio", "ssp", "sio", "y04", "y05", "y06", "yopFail">>)[y.yop + 1]>>
    ELSE IF y.isZop
    THEN <<(<<"not", "neg", "swb", "sxt", "lsr", "lsl", "asr", "zopFail">>)[y.zop + 1]>>
    ELSE <<(<<"rti", "rtl", "di", "ei", "hlt", "brk", "v06", "die">>)[y.vop + 1]>>

\* All instruction words
Words16 == 0..(W16 - 1)

\* decode() about to be applied to a word at index 0
InitKey ==
    /\ y4 = reset(machine(NoData))
    /\ dbEnabled = FALSE
    /\ blockedForInput = FALSE
    /\ status = "reset"
    /\ itf = [at |-> "none"]
    /\ \E w \in Words16 : xl = [at |-> "decode", op |-> w, index |-> 0]

\* Both decoders are applied to the word.
decodeCall ==
    /\ xl.at = "decode"
    /\ xl' = [at |-> "decoded", op |-> xl.op, index |-> xl.index,
              matches |-> matching(xl.op),
              line |-> lstDecode(xl.op, xl.index),
              sim |-> dispatch(decode([y4 EXCEPT !.ir = xl.op]))]
    /\ UNCHANGED <<y4, dbEnabled, blockedForInput, status, itf>>

NextKey == decodeCall

SpecKey == InitKey /\ [][NextKey]_vars

\* ---------------------------------------------- disassembleSection (part_001)
K64 == 65536

\* a line of the listing: with -q the mnemonics only
lstLine(q, at, inst, text) ==
    IF q THEN [text |-> text] ELSE [at |-> at, inst |-> inst, text |-> text]

\* The loop of disassembleSection(): linebuf holds at most one line; the
\* held line is printed unless the next word is a jlr word (0xEnnn).
RECURSIVE lstLoop(_, _, _, _, _)
lstLoop(words, at, linebuf, out, q) ==
    IF words = <<>> \/ Head(words) = 0 \/ at >= 2 * K64
    THEN [lines |-> IF linebuf # <<>> THEN Append(out, linebuf[1]) ELSE out,
          panic |-> FALSE]
    ELSE LET inst == Head(words)
             printed == IF linebuf # <<>> /\ bits(inst, 15, 12) # 14
                        THEN Append(out, linebuf[1]) ELSE out
         IN  IF lstDecodePanics(inst) THEN [lines |-> printed, panic |-> TRUE]
             ELSE lstLoop(Tail(words), at + 1,
                          <<lstLine(q, at, inst, lstDecode(inst, at))>>, printed, q)

\* disassembleSection(f, 0) of a file that holds the words of the code segment
disassembleSection(words, q) == lstLoop(words, 0, <<>>, <<>>, q)

\* Code segments: up to MaxSeg words over these
MaxSeg == 3

\* lui r1, 0x3FF and adi r1, r1, 0x3F
LUI_R1 == mkRRI(6, 1, 7, 127)
ADI_R1 == mkRRI(5, 1, 1, 63)

ListWords ==
    {0, LUI_R1, ADI_R1, mkRRI(5, 2, 0, 5), mkJLR(1, 1, 0), mkJLR(0, 0, 2),
     mkZOP(0, 1), mkYOP(0, 7, 1)}

Segments == UNION {[1..n -> ListWords] : n \in 1..MaxSeg}

\* the disassemblers about to be run on a code segment
InitList ==
    /\ y4 = reset(machine(NoData))
    /\ dbEnabled = FALSE
    /\ blockedForInput = FALSE
    /\ status = "reset"
    /\ itf = [at |-> "none"]
    /\ \E s \in Segments, q \in BOOLEAN : xl = [at |-> "list", words |-> s, q |-> q]

\* main() of either disassembler on the file
listCall ==
    /\ xl.at = "list"
    /\ \E r \in {disassembleSection(xl.words, xl.q)} :
          xl' = [at |-> "listed", words |-> xl.words, q |-> xl.q,
                 lines |-> r.lines, panic |-> r.panic,
                 dis |-> disassemble(xl.words)]
    /\ UNCHANGED <<y4, dbEnabled, blockedForInput, status, itf>>

NextList == listCall

SpecList == InitList /\ [][NextList]_vars

\* beq words and the instruction indexes they are decoded at
BeqWords == { mkRRI(4, a, b, i) : a \in {0, 2}, b \in {0, 1}, i \in {0, 1, 63, 64, 126, 127} }

AtValues == {0, 16, 100, 127, 128, 1000}

\* decode() about to be applied to a beq word at some index of the segment
InitBeq ==
    /\ y4 = reset(machine(NoData))
    /\ dbEnabled = FALSE
    /\ blockedForInput = FALSE
    /\ status = "reset"
    /\ itf = [at |-> "none"]
    /\ \E w \in BeqWords, a \in AtValues : xl = [at |-> "decode", op |-> w, index |-> a]

SpecBeq == InitBeq /\ [][NextKey]_vars

\* ================================================== lexer (src/unnamed/part_003)
SP == 32
TAB == 9
NLCHAR == 10
COMMA == 44
COLON == 58
NEG == 45
COMMENT == 35

stBetween == 0
stInError == 1
stInSymbol == 2
stInString == 3
stInNumber == 4
stInComment == 6
stEnd == 7

\* A token: its text (the bytes, or a message) and its kind
Token(text, kind) == [tokenText |-> text, tokenKind |-> kind]

eofToken == Token("EOF", "TkEOF")

nlToken == Token(<<NLCHAR>>, "TkNewline")

isWhiteSpaceChar(b) == b = SP \/ b = TAB \/ b = NLCHAR

isDigitChar(b) == b >= 48 /\ b <= 57

isHexLetter(b) == (b >= 65 /\ b <= 70) \/ (b >= 97 /\ b <= 102)

isX(b) == b = 120 \/ b = 88

isQuoteChar(b) == b = 34

isOperatorChar(b) == b = COMMA \/ b = COLON \/ b = NEG

isInitialSymbolChar(b) ==
    (b >= 97 /\ b <= 122) \/ b = 46 \/ b = 95 \/ (b >= 65 /\ b <= 90)

isSymbolChar(b) ==
    (b >= 97 /\ b <= 122) \/ (b >= 48 /\ b <= 57) \/ b = 95 \/ (b >= 65 /\ b <= 90)

validNumber(num) ==
    LET isHex == Len(num) > 2 /\ num[1] = 48 /\ isX(num[2])
        digitOffset == IF isHex THEN 2 ELSE 0
    IN  \A i \in (digitOffset + 1)..Len(num) :
            isDigitChar(num[i]) \/ (isHex /\ isHexLetter(num[i]))

\* The byte loop of internalGetToken() on a lexer lx with the accumulator acc:
\* the token returned and the lexer as the call leaves it.
RECURSIVE readLoop(_, _)
readLoop(lx, acc) ==
    IF lx.pos > Len(lx.input)
    THEN [tok |-> eofToken, lx |-> [lx EXCEPT !.lexerState = stEnd]]
    ELSE LET b == lx.input[lx.pos]
             next == [lx EXCEPT !.pos = lx.pos + 1]
             err(msg) == [tok |-> Token(msg, "TkError"),
                          lx |-> [next EXCEPT !.lexerState = stInError]]
         IN  IF b >= 128 THEN err("non-ASCII character")
             ELSE CASE lx.lexerState \in {stInError, stInComment} ->
                         IF b = NLCHAR
                         THEN [tok |-> nlToken, lx |-> [next EXCEPT !.lexerState = stBetween]]
                         ELSE readLoop(next, acc)
                    [] lx.lexerState = stBetween ->
                         IF b = NLCHAR THEN [tok |-> nlToken, lx |-> next]
                         ELSE IF b = COMMENT
                         THEN readLoop([next EXCEPT !.lexerState = stInComment], acc)
                         ELSE IF isWhiteSpaceChar(b) THEN readLoop(next, acc)
                         ELSE IF isDigitChar(b)
                         THEN readLoop([next EXCEPT !.lexerState = stInNumber], Append(acc, b))
                         ELSE IF isInitialSymbolChar(b)
                         THEN readLoop([next EXCEPT !.lexerState = stInSymbol], Append(acc, b))
                         ELSE IF isQuoteChar(b)
                         THEN readLoop([next EXCEPT !.lexerState = stInString], acc)
                         ELSE IF isOperatorChar(b)
                         THEN (IF b # COMMA
                               THEN [tok |-> Token(<<b>>, "TkOperator"), lx |-> next]
                               ELSE readLoop(next, acc))
                         ELSE err("character unexpected [1]")
                    [] lx.lexerState = stInSymbol ->
                         IF isWhiteSpaceChar(b) \/ isOperatorChar(b)
                         THEN (IF b = COLON
                               THEN [tok |-> Token(acc, "TkLabel"),
                                     lx |-> [next EXCEPT !.lexerState = stBetween]]
                               ELSE [tok |-> Token(acc, "TkSymbol"),
                                     lx |-> [lx EXCEPT !.lexerState = stBetween]])
                         ELSE IF isSymbolChar(b) THEN readLoop(next, Append(acc, b))
                         ELSE err("character unexpected [2]")
                    [] lx.lexerState = stInString ->
                         IF isQuoteChar(b)
                         THEN [tok |-> Token(<<34>> \o acc \o <<34>>, "TkString"),
                               lx |-> [next EXCEPT !.lexerState = stBetween]]
                         ELSE IF b = NLCHAR THEN err("newline in string")
                         ELSE readLoop(next, Append(acc, b))
                    [] OTHER ->
                         IF isDigitChar(b) \/ isHexLetter(b) \/ isX(b)
                         THEN readLoop(next, Append(acc, b))
                         ELSE IF isWhiteSpaceChar(b) \/ isOperatorChar(b)
                         THEN (IF ~validNumber(acc)
                               THEN [tok |-> Token("invalid number", "TkError"),
                                     lx |-> [lx EXCEPT !.lexerState = stInError]]
                               ELSE [tok |-> Token(acc, "TkNumber"),
                                     lx |-> [lx EXCEPT !.lexerState = stBetween]])
                         ELSE err("character unexpected in number")

\* (lx *Lexer) internalGetToken(); pbToken = <<>> stands for nil
internalGetToken(lx) ==
    IF lx.lexerState = stEnd THEN [tok |-> eofToken, lx |-> lx]
    ELSE IF lx.pbToken # <<>>
    THEN (IF lx.lexerState # stBetween
          THEN [tok |-> Token("internal error: pbToken but not between tokens", "TkError"),
                lx |-> [lx EXCEPT !.pbToken = <<>>, !.lexerState = stInError]]
          ELSE [tok |-> lx.pbToken[1], lx |-> [lx EXCEPT !.pbToken = <<>>]])
    ELSE readLoop(lx, <<>>)

\* MakeStringLexer(ident, body)
MakeStringLexer(body) ==
    [input |-> body, pos |-> 1, lexerState |-> stBetween, pbToken |-> <<>>]

\* Source texts: up to MaxBytes bytes over a, 1, newline, space, quote,
\* dollar and the non-ASCII byte 0x80
MaxBytes == 4

LexBytes == {97, 49, NLCHAR, SP, 34, 36, 128}

LexInputs == UNION {[1..n -> LexBytes] : n \in 1..MaxBytes}

\* a lexer made for a source text; out collects the tokens it returns
InitLex ==
    /\ y4 = reset(machine(NoData))
    /\ dbEnabled = FALSE
    /\ blockedForInput = FALSE
    /\ status = "reset"
    /\ itf = [at |-> "none"]
    /\ \E s \in LexInputs : xl = [at |-> "lex", lx |-> MakeStringLexer(s), out |-> <<>>]

\* (lx *Lexer) GetToken(), called until it returns the EOF token
GetToken ==
    /\ xl.at = "lex"
    /\ IF xl.out = <<>> THEN TRUE ELSE xl.out[Len(xl.out)].tokenKind # "TkEOF"
    /\ \E r \in {internalGetToken(xl.lx)} :
          xl' = [at |-> "lex", lx |-> r.lx, out |-> Append(xl.out, r.tok)]
    /\ UNCHANGED <<y4, dbEnabled, blockedForInput, status, itf>>

NextLex == GetToken

SpecLex == InitLex /\ [][NextLex]_vars

\* ============================== assembler tables (src/unnamed/part_008)
Key == 0
Ra == 1
Rb == 2
Rc == 3
IsValue == 32768
SeString == 7

\* sigFor(): ra in bits 7:4, rb in bits 11:8, rc in bits 15:12
keySigFor(ra, rb, rc) == ((rc % 16) * 4096) + ((rb % 16) * 256) + ((ra % 16) * 16)

\* numOperands(signature)
keyNumOperands(signature) ==
    IF signature = 0 THEN 0
    ELSE IF signature < 256 THEN 1
    ELSE IF signature < 4096 THEN 2
    ELSE 3

\* getSig(): the signature element of the key, ra, rb or rc
getSig(value, whichElement) == (value \div pow2((whichElement % 4) * 4)) % 16

\* The allowed mnemonics and their signatures
keySymbols ==
    << <<"adi", keySigFor(SeReg, SeReg, SeImm7)>>,
       <<"beq", keySigFor(SeReg, SeReg, SeImm7)>>,
       <<"lb", keySigFor(SeReg, SeReg, SeImm7)>>,
       <<"lw", keySigFor(SeReg, SeReg, SeImm7)>>,
       <<"sb", keySigFor(SeReg, SeReg, SeImm7)>>,
       <<"sw", keySigFor(SeReg, SeReg, SeImm7)>>,
       <<"lli", keySigFor(SeReg, SeReg, SeImm6)>>,
       <<"lui", keySigFor(SeReg, SeImm10, SeNone)>>,
       <<"add", keySigFor(SeReg, SeReg, SeReg)>>,
       <<"sub", keySigFor(SeReg, SeReg, SeReg)>>,
       <<"addc", keySigFor(SeReg, SeReg, SeReg)>>,
       <<"subb", keySigFor(SeReg, SeReg, SeReg)>>,
       <<"nand", keySigFor(SeReg, SeReg, SeReg)>>,
       <<"or", keySigFor(SeReg, SeReg, SeReg)>>,
       <<"xor", keySigFor(SeReg, SeReg, SeReg)>>,
       <<"jalr", keySigFor(SeReg, SeReg, SeNone)>>,
       <<"not", keySigFor(SeReg, SeNone, SeNone)>>,
       <<"nop", keySigFor(SeNone, SeNone, SeNone)>>,
       <<"hlt", keySigFor(SeNone, SeNone, SeNone)>>,
       <<"neg", keySigFor(SeReg, SeNone, SeNone)>>,
       <<"li", keySigFor(SeReg, SeVal16, SeNone)>>,
       <<".align", keySigFor(SeVal16, SeNone, SeNone)>>,
       <<".byte", keySigFor(SeVal16, SeNone, SeNone)>>,
       <<".word", keySigFor(SeVal16, SeNone, SeNone)>>,
       <<".space", keySigFor(SeVal16, SeNone, SeNone)>>,
       <<".str", keySigFor(SeString, SeNone, SeNone)>>,
       <<".set", keySigFor(SeSym, SeVal16, SeNone)>> >>

\* ============================================ symbol table (src/unnamed/part_004)
MaxSymbols == 32766
NoValue == 32767
NoSymbol == 32767
symDefined == 32768
symNegated == 16384

\* entry.flags&symDefined != 0
isDefined(entry) == bits(entry.flags, 15, 15) = 1

\* internalCreateSymbol(): the entry of index i is entries[i + 1]
internalCreateSymbol(st, name, flags, value) ==
    IF Len(st.entries) = MaxSymbols THEN [st |-> st, index |-> NoSymbol, err |-> TRUE]
    ELSE [st |-> [indexes |-> [n \in (DOMAIN st.indexes) \cup {name} |->
                                  IF n = name THEN Len(st.entries) ELSE st.indexes[n]],
                  entries |-> Append(st.entries, [flags |-> flags, value |-> value])],
          index |-> Len(st.entries), err |-> FALSE]

RECURSIVE createAll(_, _)
createAll(st, syms) ==
    IF syms = <<>> THEN st
    ELSE createAll(internalCreateSymbol(st, Head(syms)[1], symDefined, Head(syms)[2]).st,
                   Tail(syms))

\* MakeSymbolTable(): the registers r0..r7, then the key symbols
MakeSymbolTable ==
    createAll([indexes |-> [n \in {} |-> 0], entries |-> <<>>],
              [i \in 1..8 |-> <<asmRegNames[i], i - 1>>] \o keySymbols)

\* a Use that enters the unknown name as a defined symbol
Use_mut(st, name) ==
    IF name \in DOMAIN st.indexes
    THEN [st |-> st, index |-> st.indexes[name], err |-> FALSE]
    ELSE internalCreateSymbol(st, name, symDefined, NoValue)

\* (st *SymbolTable) Define: the flag is set in a copy of the entry, the
\* table keeps the entry as it was
Define(st, name, value) ==
    IF name \in DOMAIN st.indexes
    THEN (IF isDefined(st.entries[st.indexes[name] + 1])
          THEN [st |-> st, index |-> NoSymbol, err |-> TRUE]
          ELSE [st |-> st, index |-> st.indexes[name], err |-> FALSE])
    ELSE internalCreateSymbol(st, name, symDefined, value)

\* (st *SymbolTable) Use
Use(st, name) ==
    IF name \in DOMAIN st.indexes
    THEN [st |-> st, index |-> st.indexes[name], err |-> FALSE]
    ELSE internalCreateSymbol(st, name, 0, NoValue)

\* (st *SymbolTable) Get
Get(st, name) ==
    IF name \notin DOMAIN st.indexes
    THEN [value |-> NoValue, index |-> NoSymbol, err |-> TRUE]
    ELSE IF ~isDefined(st.entries[st.indexes[name] + 1])
    THEN [value |-> NoValue, index |-> st.indexes[name], err |-> TRUE]
    ELSE [value |-> st.entries[st.indexes[name] + 1].value,
          index |-> st.indexes[name], err |-> FALSE]

\* (st *SymbolTable) Negate
Negate(st, index) ==
    [st EXCEPT !.entries[index + 1].flags =
                   IF bits(@, 14, 14) = 1 THEN @ ELSE @ + symNegated]

\* Calls on one symbol table: at most MaxSymOps of them
MaxSymOps == 3

SymNames == {"pdp11", "foo", "r5", "hlt"}

SymValues == {5, 7}

InitSym ==
    /\ y4 = reset(machine(NoData))
    /\ dbEnabled = FALSE
    /\ blockedForInput = FALSE
    /\ status = "reset"
    /\ itf = [at |-> "none"]
    /\ xl = [at |-> "sym", st |-> MakeSymbolTable, n |-> 0, last |-> [op |-> "none"]]

DefineCall ==
    /\ xl.at = "sym"
    /\ xl.n < MaxSymOps
    /\ \E name \in SymNames, v \in SymValues :
       \E r \in {Define(xl.st, name, v)} :
          xl' = [at |-> "sym", st |-> r.st, n |-> xl.n + 1,
                 last |-> [op |-> "Define", name |-> name, value |-> v,
                           index |-> r.index, err |-> r.err]]
    /\ UNCHANGED <<y4, dbEnabled, blockedForInput, status, itf>>

UseCall ==
    /\ xl.at = "sym"
    /\ xl.n < MaxSymOps
    /\ \E name \in SymNames :
       \E r \in {Use(xl.st, name)} :
          xl' = [at |-> "sym", st |-> r.st, n |-> xl.n + 1,
                 last |-> [op |-> "Use", name |-> name, value |-> NoValue,
                           index |-> r.index, err |-> r.err]]
    /\ UNCHANGED <<y4, dbEnabled, blockedForInput, status, itf>>

GetCall ==
    /\ xl.at = "sym"
    /\ xl.n < MaxSymOps
    /\ \E name \in SymNames :
       \E r \in {Get(xl.st, name)} :
          xl' = [at |-> "sym", st |-> xl.st, n |-> xl.n + 1,
                 last |-> [op |-> "Get", name |-> name, value |-> r.value,
                           index |-> r.index, err |-> r.err]]
    /\ UNCHANGED <<y4, dbEnabled, blockedForInput, status, itf>>

NextSym == DefineCall \/ UseCall \/ GetCall

SpecSym == InitSym /\ [][NextSym]_vars

\* ============================================== parser (src/save/asm/parser.go)
StError == 0
StBetweenLines == 1
StNeedKey == 2
StNeedExpression == 3
StNeedNewline == 4

\* report(): count the error and enter the error state
saveReport(ctx) == [ctx EXCEPT !.state = StError, !.errorCount = ctx.errorCount + 1]

\* a handler's result: the context and whether the token was consumed
handled(ctx, consumed) == [ctx |-> ctx, consumed |-> consumed]

\* In error state. Ignore everything until newline.
doError(ctx, t) ==
    handled(IF t.tokenKind = "TkNewline" THEN [ctx EXCEPT !.state = StBetweenLines] ELSE ctx,
            TRUE)

\* Line start state: the state report() sets after a redefinition is
\* overwritten by StNeedKey
doBetweenLines(ctx, t) ==
    CASE t.tokenKind = "TkLabel" ->
            LET d == Define(ctx.symtab, t.tokenText, ctx.dot)
                c == IF d.err THEN saveReport(ctx) ELSE ctx
            IN  handled([c EXCEPT !.symtab = d.st, !.state = StNeedKey], TRUE)
      [] t.tokenKind = "TkSymbol" -> handled([ctx EXCEPT !.state = StNeedKey], FALSE)
      [] t.tokenKind = "TkNewline" -> handled(ctx, TRUE)
      [] OTHER -> handled(saveReport(ctx), TRUE)

\* the instruction list with the part of instruction dot set; the list is
\* indexed from 0 in the code
setPart(instructions, dot, part, v) ==
    [instructions EXCEPT ![dot + 1] = [@ EXCEPT ![part + 1] = v]]

\* Get a key symbol or issue an error
doNeedKey(ctx, t) ==
    IF t.tokenKind = "TkSymbol"
    THEN LET g == Get(ctx.symtab, t.tokenText)
         IN  IF g.err THEN handled(saveReport(ctx), TRUE)
             ELSE handled([ctx EXCEPT
                      !.instructions = setPart(Append(ctx.instructions, <<0, 0, 0, 0>>),
                                               ctx.dot, Key, g.index),
                      !.signature = g.value,
                      !.numoperands = keyNumOperands(g.value),
                      !.opindex = Ra,
                      !.positive = TRUE,
                      !.state = IF keyNumOperands(g.value) > 0
                                THEN StNeedExpression ELSE StNeedNewline], TRUE)
    ELSE handled(saveReport(ctx), TRUE)

\* strconv.ParseInt(text, 0, 0) of the digits the lexer accepts: 0x and 0X
\* announce base 16, another leading 0 base 8
RECURSIVE digitsValue(_, _, _)
digitsValue(text, base, acc) ==
    IF text = <<>> THEN acc
    ELSE LET b == Head(text)
             d == IF isDigitChar(b) THEN b - 48
                  ELSE IF b >= 97 THEN b - 87 ELSE b - 55
         IN  digitsValue(Tail(text), base, acc * base + d)

ParseInt(text) ==
    LET hex == Len(text) > 2 /\ text[1] = 48 /\ isX(text[2])
        oct == ~hex /\ Len(text) > 1 /\ text[1] = 48
    IN  IF hex THEN [value |-> digitsValue(SubSeq(text, 3, Len(text)), 16, 0), err |-> FALSE]
        ELSE IF oct
        THEN (IF \E i \in 2..Len(text) : text[i] > 55
              THEN [value |-> 0, err |-> TRUE]
              ELSE [value |-> digitsValue(SubSeq(text, 2, Len(text)), 8, 0), err |-> FALSE])
        ELSE [value |-> digitsValue(text, 10, 0), err |-> FALSE]

\* the next operand: opindex moves on, state changes after the last one
operandDone(ctx) ==
    [ctx EXCEPT !.positive = TRUE,
                !.opindex = ctx.opindex + 1,
                !.state = IF ctx.opindex + 1 > ctx.numoperands
                          THEN StNeedNewline ELSE ctx.state]

\* An expression is zero or more minus signs followed by a value
doNeedExpression(ctx, t) ==
    CASE t.tokenKind = "TkSymbol" ->
            LET u == Use(ctx.symtab, t.tokenText)
                st == IF ctx.positive THEN u.st ELSE Negate(u.st, u.index)
            IN  IF u.err THEN handled(saveReport([ctx EXCEPT !.symtab = u.st]), TRUE)
                ELSE handled(operandDone([ctx EXCEPT
                         !.symtab = st,
                         !.instructions = setPart(ctx.instructions, ctx.dot,
                                                  ctx.opindex, u.index)]), TRUE)
      [] t.tokenKind = "TkNumber" ->
            LET p == ParseInt(t.tokenText)
                value == IF ctx.positive THEN p.value ELSE 0 - p.value
            IN  IF p.err THEN handled(saveReport(ctx), TRUE)
                ELSE handled(operandDone([ctx EXCEPT
                         !.instructions = setPart(ctx.instructions, ctx.dot, ctx.opindex,
                                                  IsValue + (value % 1024))]), TRUE)
      [] t.tokenKind = "TkOperator" ->
            IF t.tokenText = <<NEG>>
            THEN handled([ctx EXCEPT !.positive = ~ctx.positive], TRUE)
            ELSE handled(saveReport(ctx), TRUE)
      [] OTHER -> handled(saveReport(ctx), TRUE)

\* End of line: the state report() sets is overwritten by StBetweenLines
doNeedNewline(ctx, t) ==
    LET c == IF t.tokenKind # "TkNewline" THEN saveReport(ctx) ELSE ctx
    IN  handled([c EXCEPT !.state = StBetweenLines,
                          !.dot = (ctx.dot + 1) % W16,
                          !.signature = 0,
                          !.opindex = 0,
                          !.numoperands = 0,
                          !.positive = TRUE], TRUE)

\* parserFunctionMap[ctx.state](ctx, t)
parserFunctionMap(ctx, t) ==
    CASE ctx.state = StError -> doError(ctx, t)
      [] ctx.state = StBetweenLines -> doBetweenLines(ctx, t)
      [] ctx.state = StNeedKey -> doNeedKey(ctx, t)
      [] ctx.state = StNeedExpression -> doNeedExpression(ctx, t)
      [] OTHER -> doNeedNewline(ctx, t)

\* the context Parse() starts with
parserContext ==
    [srcLine |-> 1, dot |-> 0, errorCount |-> 0, instructions |-> <<>>,
     state |-> StBetweenLines, symtab |-> MakeSymbolTable,
     signature |-> 0, opindex |-> 0, numoperands |-> 0, positive |-> TRUE]

\* Source texts as the lexer delivers them: up to MaxSrcLines lines, each
\* followed by its Newline token
MaxSrcLines == 2

SrcLines ==
    << <<Token("L", "TkLabel")>>,
      <<Token("hlt", "TkSymbol")>>,
      <<Token("L", "TkLabel"), Token("hlt", "TkSymbol")>>,
      <<Token("adi", "TkSymbol"), Token("r1", "TkSymbol")>>,
      <<Token("adi", "TkSymbol"), Token("r1", "TkSymbol"), Token("r0", "TkSymbol"),
        Token(<<NEG>>, "TkOperator"), Token(<<53>>, "TkNumber")>>,
      <<Token("hlt", "TkSymbol"), Token("r1", "TkSymbol")>>,
      <<Token("bogus", "TkSymbol")>>,
      <<Token("lui", "TkSymbol"), Token("r1", "TkSymbol"),
        Token(<<49, 48, 50, 53>>, "TkNumber")>>,
      <<Token("adi", "TkSymbol"), Token("r1", "TkSymbol"), Token("r0", "TkSymbol"),
        Token(<<NEG>>, "TkOperator"), Token("foo", "TkSymbol")>>,
      <<Token("adi", "TkSymbol"), Token("r2", "TkSymbol"), Token("r0", "TkSymbol"),
        Token("foo", "TkSymbol")>>,
      <<Token("character unexpected [1]", "TkError")>> >>

RECURSIVE srcTokens(_)
srcTokens(lines) ==
    IF lines = <<>> THEN <<>>
    ELSE Head(lines) \o <<nlToken>> \o srcTokens(Tail(lines))

\* a text is the list of the indices of its lines in SrcLines
SrcTexts == UNION {[1..n -> 1..Len(SrcLines)] : n \in 1..MaxSrcLines}

\* Parse() about to read the first token
InitParse ==
    /\ y4 = reset(machine(NoData))
    /\ dbEnabled = FALSE
    /\ blockedForInput = FALSE
    /\ status = "reset"
    /\ itf = [at |-> "none"]
    /\ \E s \in SrcTexts :
          xl = [at |-> "parse",
                toks |-> srcTokens([i \in DOMAIN s |-> SrcLines[s[i]]]),
                pos |-> 1, pbToken |-> <<>>, ctx |-> parserContext]

\* One iteration of the loop of Parse(): the token comes from the pushback
\* or from the text; a token the handler does not consume is pushed back.
ParseLoop ==
    /\ xl.at = "parse"
    /\ xl.pbToken # <<>> \/ xl.pos <= Len(xl.toks)
    /\ \E t \in {IF xl.pbToken # <<>> THEN xl.pbToken[1] ELSE xl.toks[xl.pos]} :
       \E pos \in {IF xl.pbToken # <<>> THEN xl.pos ELSE xl.pos + 1} :
          IF t.tokenKind = "TkError"
          THEN xl' = [xl EXCEPT !.pos = pos, !.pbToken = <<>>,
                                !.ctx = [saveReport(xl.ctx) EXCEPT !.state = StError]]
          ELSE \E h \in {parserFunctionMap(xl.ctx, t)} :
                  xl' = [xl EXCEPT
                           !.pos = pos,
                           !.pbToken = IF h.consumed THEN <<>> ELSE <<t>>,
                           !.ctx = [h.ctx EXCEPT !.srcLine =
                                       IF t.tokenKind = "TkNewline" THEN @ + 1 ELSE @]]
    /\ UNCHANGED <<y4, dbEnabled, blockedForInput, status, itf>>

\* EOF seen - end of file processing
ParseEnd ==
    /\ xl.at = "parse"
    /\ xl.pbToken = <<>> /\ xl.pos > Len(xl.toks)
    /\ xl' = [xl EXCEPT !.at = "parsed",
                        !.ctx = IF xl.ctx.state # StBetweenLines
                                THEN saveReport(xl.ctx) ELSE xl.ctx]
    /\ UNCHANGED <<y4, dbEnabled, blockedForInput, status, itf>>

NextParse == ParseLoop \/ ParseEnd

SpecParse == InitParse /\ [][NextParse]_vars

\* ================================= SIGINT and the loop (src/func/func.go)
\* The end of an iteration of the loop of simulate(): break on a double
\* fault, else the prompt when dbEnabled is set, else the next iteration.
\* A loop that asks only while the machine still runs:
loopEnd_mut(y, db) ==
    IF doubleFault(y) THEN "break"
    ELSE IF db /\ y.run THEN "prompt" ELSE "next"

loopEnd(y, db) ==
    IF doubleFault(y) THEN "break"
    ELSE IF db THEN "prompt" ELSE "next"

\* Cycles, signals and key presses of one run
MaxIntCycles == 3
MaxSignals == 2
MaxKeys == 3

IntWords == {HLT, mkRRI(5, 1, 0, 1), mkJLR(0, 0, 2), mkJLR(2, 0, 0)}

PromptKeys == {"h", "c", "s", "x"}

\* main() without -d, about to call simulate(); xl counts the signals
\* delivered and the lines read from the terminal
InitInt ==
    /\ y4 = reset(machine(NoData))
    /\ dbEnabled = FALSE
    /\ blockedForInput = FALSE
    /\ status = "reset"
    /\ itf = [at |-> "none"]
    /\ xl = [at |-> "int", sigs |-> 0, reads |-> 0]

\* the stages of one iteration: fetch, decode, execute, memory, writeback
intCycle ==
    /\ status = "loop"
    /\ y4.run
    /\ y4.cyc <= MaxIntCycles
    /\ UNCHANGED <<dbEnabled, blockedForInput, itf, xl>>
    /\ \E w \in (IF fetchAddr(y4) \in DOMAIN y4.mem[fetchMode(y4)].imem
                 THEN {y4.mem[fetchMode(y4)].imem[fetchAddr(y4)]}
                 ELSE IntWords) :
           \E dd \in {decode(fetch(image(y4, fetchMode(y4), fetchAddr(y4), w)))} :
           \E x \in {execute(dd)} :
           \E z \in {writeback(memory(x))} :
               IF fetchAsserts(y4)
               THEN y4' = y4 /\ status' = "panic"
               ELSE IF decodeFailure(dd)
               THEN y4' = dd /\ status' = "panic"
               ELSE IF memoryAsserts(x)
               THEN y4' = [x EXCEPT !.wb = x.alu] /\ status' = "panic"
               ELSE y4' = z /\ status' = "check"

\* the tests that end the iteration; prompt() sets blockedForInput on entry
intEnd ==
    /\ status = "check"
    /\ UNCHANGED <<dbEnabled, itf, xl>>
    /\ \E e \in {loopEnd(y4, dbEnabled)} :
          CASE e = "break" ->
                  /\ status' = haltMsg(y4)
                  /\ UNCHANGED <<y4, blockedForInput>>
            [] e = "prompt" ->
                  /\ status' = "prompt"
                  /\ blockedForInput' = TRUE
                  /\ UNCHANGED y4
            [] OTHER ->
                  /\ y4' = [y4 EXCEPT !.cyc = y4.cyc + 1]
                  /\ status' = IF y4.run THEN "loop" ELSE haltMsg(y4)
                  /\ UNCHANGED blockedForInput

\* prompt(): one line read from the terminal; h prints the help and asks again
intPrompt ==
    /\ status = "prompt"
    /\ xl.reads < MaxKeys
    /\ UNCHANGED <<blockedForInput, itf>>
    /\ xl' = [xl EXCEPT !.reads = xl.reads + 1]
    /\ \E c \in PromptKeys :
          IF c = "h"
          THEN UNCHANGED <<y4, dbEnabled, status>>
          ELSE /\ y4' = [y4 EXCEPT !.run = prompt(c).run, !.cyc = y4.cyc + 1]
               /\ dbEnabled' = prompt(c).db
               /\ status' = IF prompt(c).run THEN "loop" ELSE haltMsg(y4)

\* The goroutine of main() receives os.Interrupt while simulate() runs. Its
\* assignment is not ordered with the loop's test: the test of an iteration
\* sees it or not as the two steps interleave.
intSignal ==
    /\ status \in {"loop", "check", "prompt"}
    /\ xl.sigs < MaxSignals
    /\ dbEnabled' = TRUE
    /\ xl' = [xl EXCEPT !.sigs = xl.sigs + 1]
    /\ UNCHANGED <<y4, blockedForInput, status, itf>>

NextInt == simulateStart \/ intCycle \/ intEnd \/ intPrompt \/ intSignal

SpecInt == InitInt /\ [][NextInt]_vars

\* ------------------------------------------------------------- I/O words
\* Binaries of lio and sio words, adi to load a register and rti to enter
\* user mode.
MaxIoCycles == 3

IoInstrs ==
    { RTI,
      mkRRI(5, 1, 0, 7),       \* adi r1, r0, 7
      mkYOP(1, 1, 0),          \* lio r1, r0
      mkYOP(1, 2, 1),          \* lio r2, r1
      mkYOP(3, 1, 0) }         \* sio r1, r0

simulateIo == cycle(IoInstrs, MaxIoCycles)

NextIo == simulateStart \/ simulateIo \/ sigint

SpecIo == Init /\ [][NextIo]_vars

\* ------------------------------------------------------ the mode flag
\* Binaries that write kernel Imr and return from the kernel.
MaxModeCycles == 5

ModeInstrs ==
    { RTI,
      mkRRI(5, 1, 0, 4),       \* adi r1, r0, 4
      mkRRI(5, 2, 0, 5),       \* adi r2, r0, 5
      mkYOP(2, 2, 1) }         \* ssp r2, r1

simulateMode == cycle(ModeInstrs, MaxModeCycles)

NextMode == simulateStart \/ simulateMode \/ sigint

SpecMode == Init /\ [][NextMode]_vars

\* ------------------------------------------------- decode of every word
\* a machine that has fetched the word ir without an exception
InitDec ==
    /\ y4 = reset(machine(NoData))
    /\ dbEnabled = FALSE
    /\ blockedForInput = FALSE
    /\ status = "reset"
    /\ itf = [at |-> "none"]
    /\ \E ir \in Words16 : xl = [at |-> "dec", ir |-> ir]

\* decode() of the word, and whether execute() then reaches one of the
\* internal decode failures
decodeWord ==
    /\ xl.at = "dec"
    /\ \E d \in {decode([y4 EXCEPT !.ir = xl.ir])} :
          xl' = [at |-> "decd", ir |-> xl.ir,
                 isBase |-> d.isBase, isXop |-> d.isXop, isYop |-> d.isYop,
                 isZop |-> d.isZop, isVop |-> d.isVop,
                 fail |-> decodeFailure(d)]
    /\ UNCHANGED <<y4, dbEnabled, blockedForInput, status, itf>>

NextDec == decodeWord

SpecDec == InitDec /\ [][NextDec]_vars

\* =================================== token pushback (src/unnamed/part_003)
\* an unget that accepts a second token and keeps the newer one
unget_mut(lx, tk) ==
    IF lx.lexerState # stBetween
    THEN [lx |-> [lx EXCEPT !.lexerState = stInError], err |-> TRUE]
    ELSE [lx |-> [lx EXCEPT !.pbToken = <<tk>>], err |-> FALSE]

\* (lx *Lexer) unget(tk): Unget a token, allowing one-character look ahead
unget(lx, tk) ==
    IF lx.pbToken # <<>>
    THEN [lx |-> [lx EXCEPT !.lexerState = stInError], err |-> TRUE]
    ELSE IF lx.lexerState # stBetween
    THEN [lx |-> [lx EXCEPT !.lexerState = stInError], err |-> TRUE]
    ELSE [lx |-> [lx EXCEPT !.pbToken = <<tk>>], err |-> FALSE]

\* the tokens of a lexer that is only read, up to and including EOF
RECURSIVE lexAll(_)
lexAll(lx) ==
    LET r == internalGetToken(lx)
    IN  IF r.tok.tokenKind = "TkEOF" THEN <<r.tok>> ELSE <<r.tok>> \o lexAll(r.lx)

\* Source texts of up to MaxUngetBytes bytes, and the number of pushbacks
MaxUngetBytes == 3
MaxUngets == 2

UngetBytes == {97, NLCHAR, SP, 36, COLON}

UngetInputs == UNION {[1..n -> UngetBytes] : n \in 1..MaxUngetBytes}

\* a lexer made for a source text. ref is what a reader that never pushes
\* back gets from the text, net the number of tokens read and not pushed
\* back, tok the token read last, failed whether a pushback has failed.
InitUnget ==
    /\ y4 = reset(machine(NoData))
    /\ dbEnabled = FALSE
    /\ blockedForInput = FALSE
    /\ status = "reset"
    /\ itf = [at |-> "none"]
    /\ \E s \in UngetInputs :
          xl = [at |-> "unget", lx |-> MakeStringLexer(s),
                ref |-> lexAll(MakeStringLexer(s)), net |-> 0, ungets |-> 0,
                tok |-> <<>>, last |-> "none", err |-> FALSE, failed |-> FALSE]

\* GetToken() by the parser, until it has been given EOF
UngetGet ==
    /\ xl.at = "unget"
    /\ IF xl.tok = <<>> THEN TRUE
       ELSE xl.tok[1].tokenKind # "TkEOF" \/ xl.lx.pbToken # <<>>
    /\ \E r \in {internalGetToken(xl.lx)} :
          xl' = [xl EXCEPT !.lx = r.lx, !.tok = <<r.tok>>, !.net = xl.net + 1,
                           !.last = "get", !.err = FALSE]
    /\ UNCHANGED <<y4, dbEnabled, blockedForInput, status, itf>>

\* the parser pushes back the token it read last
UngetCall ==
    /\ xl.at = "unget"
    /\ xl.tok # <<>>
    /\ xl.ungets < MaxUngets
    /\ \E r \in {unget(xl.lx, xl.tok[1])} :
          xl' = [xl EXCEPT !.lx = r.lx, !.ungets = xl.ungets + 1,
                           !.net = IF r.err THEN xl.net ELSE xl.net - 1,
                           !.last = "unget", !.err = r.err,
                           !.failed = xl.failed \/ r.err]
    /\ UNCHANGED <<y4, dbEnabled, blockedForInput, status, itf>>

NextUnget == UngetGet \/ UngetCall

SpecUnget == InitUnget /\ [][NextUnget]_vars

\* ====================================== gate-level simulator (src/sim)
\* Bit values: 0 and 1 are themselves, bUndef is Bit('U').
bUndef == 85

MaxRegs == 2
MaxWidth == 2
MaxSimCycles == 2
MaxSimCalls == 2

undefined(width) == [k \in 1..width |-> bUndef]

\* ZeroGenerator.Evaluate(): make([]Bit, width, width), never written
zeroes(width) == [k \in 1..width |-> 0]

\* MakeRegister(s, name, width, en) followed by one AddInput(c): input is 0
\* for a ZeroGenerator of the register's width, j for the Register that was
\* made j-th.  shared records that exposedState and nextState are the same
\* slice (PositiveEdge assigns the slice, it does not copy the bits).
MakeRegister(width, input) ==
    [input |-> input, exposedState |-> zeroes(width),
     nextState |-> zeroes(width), nextStateValid |-> FALSE,
     nextClockEnabled |-> FALSE, shared |-> FALSE]

\* Register.Reset()
regReset(r, width) ==
    [r EXCEPT !.exposedState = undefined(width), !.shared = FALSE,
              !.nextStateValid = FALSE, !.nextClockEnabled = FALSE]

\* Register.Prepare()
regPrepare(r) == [r EXCEPT !.nextStateValid = FALSE]

\* Register.Evaluate() of the i-th Register: the registers after the call.
\* en[i] is what the Register's enableFunc returns in this cycle.  An input
\* Register is evaluated by the call and hands back its exposedState.
RECURSIVE regEvaluate(_, _, _, _)
regEvaluate(rs, i, en, width) ==
    IF rs[i].nextStateValid THEN rs
    ELSE LET j == rs[i].input
             r1 == IF j = 0 THEN rs ELSE regEvaluate(rs, j, en, width)
             inBits == IF j = 0 THEN zeroes(width) ELSE r1[j].exposedState
         IN [r1 EXCEPT ![i] =
                [@ EXCEPT !.nextState = inBits,
                          !.exposedState = IF r1[i].shared THEN inBits ELSE @,
                          !.nextClockEnabled = en[i],
                          !.nextStateValid = TRUE]]

\* Register.PositiveEdge()
regPositiveEdge(r) ==
    IF r.nextClockEnabled
    THEN [r EXCEPT !.exposedState = r.nextState, !.shared = TRUE]
    ELSE r

\* The circuits: MaxRegs Registers at most, all of one width, each fed by a
\* ZeroGenerator or by a Register made before it (RegisterClockable puts the
\* Registers in s.state, RegisterComponent the ZeroGenerators in s.logic).
Circuits ==
    UNION {{c \in [1..n -> 0..(n - 1)] : \A i \in 1..n : c[i] < i} : n \in 1..MaxRegs}

InitSim ==
    /\ y4 = reset(machine(NoData))
    /\ dbEnabled = FALSE
    /\ blockedForInput = FALSE
    /\ status = "reset"
    /\ itf = [at |-> "none"]
    /\ \E c \in Circuits, w \in 1..MaxWidth :
          xl = [at |-> "sim", width |-> w, phase |-> "idle", idx |-> 0,
                state |-> [i \in DOMAIN c |-> MakeRegister(w, c[i])],
                en |-> [i \in DOMAIN c |-> FALSE],
                cycleCounter |-> 0, end |-> 0, calls |-> 0]

\* Simulate(s, reset, nCycles) up to the first cycle of its loop
simCall ==
    /\ xl.at = "sim" /\ xl.phase = "idle"
    /\ xl.calls < MaxSimCalls
    /\ \E rst \in BOOLEAN, nCycles \in 1..MaxSimCycles :
          LET cc == IF rst THEN 0 ELSE xl.cycleCounter
          IN xl' = [xl EXCEPT
                 !.state = IF rst
                           THEN [i \in DOMAIN @ |-> regReset(@[i], xl.width)]
                           ELSE @,
                 !.cycleCounter = cc, !.end = cc + nCycles,
                 !.calls = @ + 1, !.phase = "prepare"]
    /\ UNCHANGED <<y4, dbEnabled, blockedForInput, status, itf>>

\* for _, co := range s.logic { co.Prepare() }: s.logic holds the
\* ZeroGenerators, whose Prepare() is empty.  The enables of the cycle that
\* begins are chosen here.
simPrepare ==
    /\ xl.at = "sim" /\ xl.phase = "prepare"
    /\ \E en \in [DOMAIN xl.state -> BOOLEAN] :
          xl' = [xl EXCEPT !.en = en, !.phase = "evaluate", !.idx = 1]
    /\ UNCHANGED <<y4, dbEnabled, blockedForInput, status, itf>>

\* for _, cl := range s.state { cl.Evaluate() }, one Register per step
simEvaluate ==
    /\ xl.at = "sim" /\ xl.phase = "evaluate"
    /\ xl' = [xl EXCEPT
                 !.state = regEvaluate(@, xl.idx, xl.en, xl.width),
                 !.idx = IF xl.idx < Len(xl.state) THEN @ + 1 ELSE 1,
                 !.phase = IF xl.idx < Len(xl.state) THEN @ ELSE "edge"]
    /\ UNCHANGED <<y4, dbEnabled, blockedForInput, status, itf>>

\* for _, cl := range s.state { cl.PositiveEdge() }, one Register per step,
\* then cycleCounter++ and the loop test
simPositiveEdge ==
    /\ xl.at = "sim" /\ xl.phase = "edge"
    /\ LET last == xl.idx = Len(xl.state)
       IN xl' = [xl EXCEPT
                 !.state[xl.idx] = regPositiveEdge(@),
                 !.idx = IF last THEN 0 ELSE @ + 1,
                 !.cycleCounter = IF last THEN @ + 1 ELSE @,
                 !.phase = IF ~last THEN @
                           ELSE IF xl.cycleCounter + 1 < xl.end THEN "prepare"
                           ELSE "idle"]
    /\ UNCHANGED <<y4, dbEnabled, blockedForInput, status, itf>>

NextSim == simCall \/ simPrepare \/ simEvaluate \/ simPositiveEdge

SpecSim == InitSim /\ [][NextSim]_vars

\* ================================================================ properties
\* A step of simulateCycle: every loop iteration changes the machine.
CycleStep == status = "loop" /\ y4' # y4

\* The machine as the fetch stage of this step leaves it.
Fetched == fetch([y4 EXCEPT !.mem = y4'.mem])

\* The instruction fetched in this step is dispatched by execute().
Executes == CycleStep /\ Fetched.ex = 0

isSsp(y) == y.isYop /\ y.yop = 2

isLsp(y) == y.isYop /\ y.yop = 0

\* C1: the round trip of a well-formed source ends with two byte-identical
\* binaries: assemble(S) = assemble(disassemble(assemble(S))).
C1_RoundTrip ==
    itf.at = "done" =>
        /\ itf.result = "passed"
        /\ "y4.out" \in DOMAIN itf.files
        /\ "y4.out2" \in DOMAIN itf.files
        /\ itf.files["y4.out"] = itf.files["y4.out2"]

\* C2: a cycle that starts with a pending exception E and interrupts enabled
\* delivers it in fetch: kernel Irr, Icr, Imr receive pc, E and the mode,
\* then mode = Kern, pc = E, en = false, ex = 0, and the instruction is read
\* from kernel code address E; the cycle ends in that state unless the
\* handler's first instruction itself rewrites it.
C2_ExceptionDelivery ==
    [][ (CycleStep /\ y4.ex # 0 /\ y4.en) =>
          /\ Fetched.reg[Kern].spr[Irr] = y4.pc
          /\ Fetched.reg[Kern].spr[Icr] = y4.ex
          /\ Fetched.reg[Kern].spr[Imr] = y4.mode
          /\ Fetched.mode = Kern
          /\ Fetched.pc = y4.ex + 1
          /\ ~Fetched.en
          /\ Fetched.ex = 0
          /\ y4'.ir = y4'.mem[Kern].imem[y4.ex]
          /\ (y4'.ir \notin {RTI, EI} /\ ~isSsp(y4')) =>
                /\ y4'.reg[Kern].spr[Irr] = y4.pc
                /\ y4'.reg[Kern].spr[Icr] = y4.ex
                /\ y4'.reg[Kern].spr[Imr] = y4.mode
                /\ y4'.mode = Kern
                /\ ~y4'.en ]_vars

\* sys 8 executed in user mode has been delivered to the handler at 8.
C2_Witness ==
    /\ y4.reg[Kern].spr[Icr] = 8
    /\ y4.reg[Kern].spr[Imr] = User
    /\ y4.reg[Kern].spr[Irr] = 1
    /\ y4.mode = Kern
    /\ y4.pc = 9
    /\ ~y4.en

\* C3: an exception latched while interrupts are disabled ends the run with
\* the double-fault report and the machine is never stepped again, so the
\* exception is not delivered.
C3_DoubleFaultHalts ==
    /\ []((y4.ex # 0 /\ ~y4.en) => status = "double fault")
    /\ [][status = "double fault" => y4' = y4]_vars

C3_Witness ==
    /\ status = "double fault"
    /\ y4.ex = ExIllegal
    /\ y4.reg[Kern].spr[Icr] = 0
    /\ y4.pc = 1

\* The privileged instructions of C4 as seen in user mode.
Privileged(y) ==
    \/ y.ir \in {RTI, DI, EI, HLT, BRK}
    \/ /\ isLsp(y) \/ isSsp(y)
       /\ LET r == y.reg[User].gen[y.rb] % SprSize
          IN  r \in {Irr, Icr, Imr} \/ r >= 32

\* C4: a privileged instruction executed in user mode latches ExIllegal in
\* that cycle and changes no general register, SPR, data byte, mode or en;
\* run changes only by the answer given at the debugger prompt.
C4_UserPrivileged ==
    [][ (Executes /\ Fetched.mode = User /\ Privileged(y4')) =>
          /\ y4'.ex = ExIllegal
          /\ y4'.reg = y4.reg
          /\ \A m \in {User, Kern} : y4'.mem[m].dmem = y4.mem[m].dmem
          /\ y4'.mode = y4.mode
          /\ y4'.en = y4.en
          /\ ~dbEnabled => y4'.run = y4.run ]_vars

\* user mode has just executed lsp r3, r1 with r1 = 3 (Icr)
C4_Witness ==
    /\ y4.mode = User
    /\ y4.ir = mkYOP(0, 3, 1)
    /\ y4.reg[User].gen[1] = 3
    /\ y4.ex = ExIllegal

C6_NoPanic == status # "panic"

\* C7: reset leaves kernel mode, interrupts disabled, no exception pending
\* and kernel Imr = User; Imr stays User until an exception is delivered,
\* and an rti executed while it is User enters user mode.
C7_FirstRti ==
    /\ [](status = "reset" =>
            /\ y4.mode = Kern
            /\ ~y4.en
            /\ y4.ex = 0
            /\ y4.reg[Kern].spr[Imr] = User)
    /\ [][ (y4.ex = 0 /\ y4.reg[Kern].spr[Imr] = User) =>
             /\ y4'.reg[Kern].spr[Imr] = User
             /\ (Executes /\ y4.mode = Kern /\ y4'.ir = RTI) => y4'.mode = User ]_vars

\* the first instruction after reset was rti
C7_Witness ==
    /\ y4.cyc = 2
    /\ y4.ir = RTI
    /\ y4.mode = User
    /\ y4.en

\* C8: rti executed in kernel mode clears ex, sets en, and loads mode from
\* kernel Imr and pc from kernel Irr as they are when it executes.
C8_Rti ==
    [][ (Executes /\ Fetched.mode = Kern /\ y4'.ir = RTI) =>
          /\ y4'.ex = 0
          /\ y4'.en
          /\ y4'.mode = Fetched.reg[Kern].spr[Imr]
          /\ y4'.pc = Fetched.reg[Kern].spr[Irr] ]_vars

\* the handler at 8 returned with rti to kernel code address 2
C8_Witness ==
    /\ y4.ir = RTI
    /\ y4.pc = 2
    /\ y4.mode = Kern
    /\ y4.en
    /\ y4.reg[Kern].spr[Icr] = 8

\* C9: once hlt has executed in kernel mode the run flag is clear and the
\* simulation has ended.
C9_HltEnds ==
    (y4.ir = HLT /\ y4.mode = Kern /\ y4.ex = 0) => (~y4.run /\ status = "halt")

\* C10: after stw rA, rB, imm7 the two bytes at rB+imm7 hold the low and
\* high byte of rA, and after stb the byte holds the low byte of rA.
C10_StoreWritesRa ==
    (y4.ex = 0 /\ y4.isBase /\ y4.op \in {2, 3} /\ status # "reset") =>
        LET v == y4.reg[y4.mode].gen[y4.ra]
            dm == y4.mem[y4.mode].dmem
        IN  /\ rd(dm, y4.alu) = v % 256
            /\ y4.op = 2 => rd(dm, add16(y4.alu, 1)) = v \div 256

\* C11: a jlr word with rA field 0 latches its immediate N when the rB field
\* is 0 and N is even with 2 <= N <= 30, and ExIllegal in every other case.
C11_SysTrap ==
    [][ (Executes /\ bits(y4'.ir, 15, 12) = 14 /\ bits(y4'.ir, 2, 0) = 0) =>
          LET n == bits(y4'.ir, 12, 6)
              legal == bits(y4'.ir, 5, 3) = 0 /\ n % 2 = 0 /\ 2 <= n /\ n <= 30
          IN  y4'.ex = IF legal THEN n ELSE ExIllegal ]_vars

\* user mode has executed sys 30, and the handler at 30 has then executed
\* sys 3
C11_Witness ==
    /\ y4.ir = mkJLR(0, 0, 3)
    /\ y4.ex = ExIllegal
    /\ y4.reg[Kern].spr[Icr] = 30
    /\ y4.pc = 31

\* The reserved and illegal encodings.
Illegal(ir) ==
    \/ ir = 0
    \/ ir >= 65280 /\ ir <= 65471
    \/ ir = V06
    \/ ir = DIE
    \/ bits(ir, 15, 12) = 14 /\ bits(ir, 2, 0) > 2

\* C12: a reserved or illegal word executed in either mode latches ExIllegal
\* and changes no register, no data byte, and neither pc, mode nor en beyond
\* what its fetch did.
C12_IllegalWords ==
    [][ (Executes /\ Illegal(y4'.ir)) =>
          /\ y4'.ex = ExIllegal
          /\ y4'.reg = Fetched.reg
          /\ \A m \in {User, Kern} : y4'.mem[m].dmem = y4.mem[m].dmem
          /\ y4'.pc = Fetched.pc
          /\ y4'.mode = Fetched.mode
          /\ y4'.en = Fetched.en ]_vars

\* the reserved word 0xFF09 (y04) in user mode, then the all-zero word in
\* the kernel handler at 32
C12_Witness ==
    /\ y4.ir = 0
    /\ y4.mode = Kern
    /\ y4.ex = ExIllegal
    /\ y4.reg[Kern].spr[Icr] = ExIllegal
    /\ y4.mem[User].imem = (0 :> 65289)

\* C13: the cycle that fetches at PC = 0xFFFF ends with pc = 0 and ExMachine
\* latched, and with interrupts enabled the next cycle delivers it: kernel
\* Icr = 62, kernel Irr = 0, and the instruction comes from kernel code
\* address 62.
C13_PcWrap ==
    [][ /\ (CycleStep /\ y4.ex = 0 /\ y4.pc = W16 - 1) =>
              /\ y4'.ex = ExMachine
              /\ y4'.pc = 0
        /\ (CycleStep /\ y4.ex = ExMachine /\ y4.en) =>
              /\ Fetched.reg[Kern].spr[Icr] = ExMachine
              /\ Fetched.reg[Kern].spr[Irr] = y4.pc
              /\ Fetched.mode = Kern
              /\ Fetched.pc = ExMachine + 1
              /\ y4'.ir = y4'.mem[Kern].imem[ExMachine] ]_vars

\* the wrap of the user PC has been delivered to the kernel handler at 62
C13_Witness ==
    /\ y4.reg[Kern].spr[Icr] = ExMachine
    /\ y4.reg[Kern].spr[Irr] = 0
    /\ y4.reg[Kern].spr[Imr] = User
    /\ y4.mode = Kern
    /\ (W16 - 1) \in DOMAIN y4.mem[User].imem

\* C16: an executed beq rA, rB, imm7 at code address A leaves
\* pc = (A + 1 + sxt(imm7)) mod 2^16 when rA = rB, and A + 1 otherwise.
C16_Beq ==
    [][ (Executes /\ bits(y4'.ir, 15, 13) = 4) =>
          LET A == fetchAddr(y4)
              gen == Fetched.reg[Fetched.mode].gen
              i7 == bits(y4'.ir, 12, 6)
              sxt == IF i7 >= 64 THEN i7 - 128 ELSE i7
          IN  y4'.pc = IF gen[bits(y4'.ir, 2, 0)] = gen[bits(y4'.ir, 5, 3)]
                       THEN (A + 1 + sxt + W16) % W16
                       ELSE A + 1 ]_vars

\* beq r0, r0, 0x7F at code address 0x10 has left pc = 0x10
C16_Witness ==
    /\ y4.ir = mkRRI(4, 0, 0, 127)
    /\ 16 \in DOMAIN y4.mem[Kern].imem
    /\ y4.mem[Kern].imem[16] = mkRRI(4, 0, 0, 127)
    /\ y4.mode = Kern
    /\ y4.ex = 0
    /\ y4.pc = 16
    /\ y4.reg[Kern].gen[1] = 16

\* C14: adc leaves rC + rB + hc in alu and hc = 1 exactly when that sum
\* exceeds 0xFFFF; sbb leaves rC - rB - hc in alu and hc = 1 exactly when
\* rC < rB + hc.
C14_Carry ==
    [][ (Executes /\ y4'.isXop /\ y4'.xop \in {1, 3}) =>
          LET gen == Fetched.reg[Fetched.mode].gen
              c == gen[y4'.rc]
              b == gen[y4'.rb]
          IN  IF y4'.xop = 1
              THEN /\ y4'.alu = (c + b + y4.hc) % W16
                   /\ y4'.hc = IF c + b + y4.hc > W16 - 1 THEN 1 ELSE 0
              ELSE /\ y4'.alu = (c - b - y4.hc + 2 * W16) % W16
                   /\ y4'.hc = IF c < b + y4.hc THEN 1 ELSE 0 ]_vars

\* C15: lsr and asr leave hc = bit 0 of the shifted register value, lsl
\* leaves hc = its bit 15, and the result of asr keeps bit 15 of the value.
C15_Shifts ==
    [][ (Executes /\ y4'.isZop /\ y4'.zop \in {4, 5, 6}) =>
          LET v == Fetched.reg[Fetched.mode].gen[y4'.ra]
          IN  /\ y4'.hc = IF y4'.zop = 5 THEN bits(v, 15, 15) ELSE v % 2
              /\ y4'.zop = 6 =>
                    /\ bits(y4'.alu, 15, 15) = bits(v, 15, 15)
                    /\ y4'.ra # 0 =>
                          bits(y4'.reg[y4'.mode].gen[y4'.ra], 15, 15) = bits(v, 15, 15) ]_vars

\* asr r1 has shifted 0xFFFE, the result of lsl r1 on 0xFFFF
C15_Witness ==
    /\ y4.ir = mkZOP(6, 1)
    /\ y4.reg[y4.mode].gen[1] = W16 - 1
    /\ y4.hc = 0
    /\ y4.ex = 0
    /\ status = "loop"

\* C17: translate selects page = vaddr[15:12], reads the current mode's
\* SPR[32 + page] for code or SPR[48 + page] for data, and returns
\* ((SPR & 0xFFF) << 12) | vaddr[11:0], shifted right by one for data.
C17_Translate ==
    xl.at = "done" =>
        LET page == bits(xl.vaddr, 15, 12)
            entry == y4.reg[y4.mode].spr[(IF xl.isData THEN 48 ELSE 32) + page]
            whole == bits(entry, 11, 0) * pow2(12) + bits(xl.vaddr, 11, 0)
        IN  xl.paddr = IF xl.isData THEN whole \div 2 ELSE whole

\* kernel SPR[32] = 0x100: code address 0x0234 is physical 0x100234
C17_Witness ==
    /\ xl.at = "done"
    /\ ~xl.isData
    /\ xl.vaddr = 564
    /\ y4.mode = Kern
    /\ y4.reg[Kern].spr[32] = 256
    /\ y4.reg[User].spr[32] = 0
    /\ xl.paddr = 1049140

\* C18: translate raises ExMemory exactly when the physical address is
\* greater than or equal to the physical-memory size.
C18_ExMemory ==
    xl.at = "done" => (xl.ex = ExMemory <=> xl.paddr >= PhysMemSize)

\* C20: in kernel mode SPRs 17..23 are user r1..r7 and SPR 25 is the user
\* Link register: lsp rA, rB with rB naming such an SPR leaves the user
\* register's value in kernel rA, and ssp rA, rB leaves the value of kernel
\* rA in the user register.
C20_Alias ==
    [][ (Executes /\ Fetched.mode = Kern /\ y4'.isYop /\ y4'.yop \in {0, 2}) =>
          LET r == Fetched.reg[Kern].gen[y4'.rb] % SprSize
              aliased(y) == IF r = 25 THEN y.reg[User].spr[Link]
                            ELSE y.reg[User].gen[r - 16]
          IN  (r \in 17..23 \/ r = 25) =>
                /\ (y4'.yop = 0 /\ y4'.ra # 0) =>
                        y4'.reg[Kern].gen[y4'.ra] = aliased(Fetched)
                /\ y4'.yop = 2 =>
                        aliased(y4') = Fetched.reg[Kern].gen[y4'.ra] ]_vars

\* C21: every 16-bit word matches exactly one entry of the key table, so the
\* decoded line does not depend on the scan order and the "opcode not found"
\* internal error is never returned.
C21_UniqueMatch ==
    xl.at = "decoded" =>
        /\ Cardinality(xl.matches) = 1
        /\ xl.line[1] # Sym("internal error: opcode not found")

\* 0xF253 (adc r3, r2, r1) has been decoded by its single entry
C21_Witness ==
    /\ xl.at = "decoded"
    /\ xl.op = 62035
    /\ xl.matches = {10}
    /\ xl.line = <<Sym("adc"), Sym("r3"), Sym("r2"), Sym("r1")>>

\* The operation a listing line names: the mnemonic without its padding,
\* the trap number of sys, and "illegal" for the commented die line.
named(line) ==
    IF line[1].text = "sys" THEN <<"sys", line[2].value>>
    ELSE IF line[1].text = "die" /\ Len(line) > 1 THEN <<"illegal">>
    ELSE IF line[1].text = "di " THEN <<"di">>
    ELSE IF line[1].text = "ei " THEN <<"ei">>
    ELSE <<line[1].text>>

\* C22: for every 16-bit word the mnemonic of the listing (with the jlr forms
\* sys N, jsr, jmp and illegal) names the operation the execute dispatch of
\* the simulator performs for that word.
C22_Agree ==
    xl.at = "decoded" => named(xl.line) = xl.sim

\* C23: a code segment that consists of lui r1, 0x3FF (0xDFF9) followed by
\* the matching adi (0xAFC9) is listed as the single line ldi r1, 0xFFFF:
\* the lui line is gone and the adi line is replaced.
C23_Ldi ==
    (xl.at = "listed" /\ xl.words = <<LUI_R1, ADI_R1>>) =>
        /\ Len(xl.lines) = 1
        /\ xl.lines[1].text = <<Sym("ldi"), Sym("r1"), Num(65535)>>
        /\ Len(xl.dis) = 1
        /\ SubSeq(xl.dis[1], 2, Len(xl.dis[1])) = <<Sym("ldi"), Sym("r1"), Num(65535)>>

\* C24: a beq word decoded at instruction index at is listed with the
\* absolute branch target at + 1 + sxt(imm7) in place of the raw offset.
C24_BeqTarget ==
    (xl.at = "decoded" /\ bits(xl.op, 15, 13) = 4) =>
        /\ Len(xl.line) = 4
        /\ xl.line[1] = Sym("beq")
        /\ xl.line[4] = Num((xl.index + 1 + sxtImm(xl.op)) % W16)

\* The number of words of a code segment before its terminating zero word.
RECURSIVE codeLen(_)
codeLen(words) ==
    IF words = <<>> \/ Head(words) = 0 THEN 0 ELSE 1 + codeLen(Tail(words))

\* Word i is a lui whose register is used by the adi or jlr word after it.
fusedLui(words, i) ==
    /\ bits(words[i], 15, 13) = 6
    /\ i < codeLen(words)
    /\ bits(words[i + 1], 15, 13) = 5 \/ bits(words[i + 1], 15, 12) = 14
    /\ bits(words[i], 2, 0) \in {bits(words[i + 1], 2, 0), bits(words[i + 1], 5, 3)}

\* C25: in the listing with index columns every word before the terminating
\* zero word has its own line, except a lui fused into the adi or jlr that
\* follows it on the same register, and every line carries the offset of its
\* word in the code segment (runs that end in a panic of decode aside).
C25_Lines ==
    (xl.at = "listed" /\ ~xl.q /\ ~xl.panic) =>
        /\ \A i \in 1..codeLen(xl.words) :
              \/ fusedLui(xl.words, i)
              \/ \E j \in 1..Len(xl.lines) :
                    xl.lines[j].at = i - 1 /\ xl.lines[j].inst = xl.words[i]
        /\ \A j \in 1..Len(xl.lines) :
              /\ xl.lines[j].at < codeLen(xl.words)
              /\ xl.lines[j].inst = xl.words[xl.lines[j].at + 1]

\* The index of the newline that ends the line on which the lexer lx has just
\* returned the Error token tok; 0 if end of file ends that line. The byte
\* that raised the error is the one before pos, except for an invalid number,
\* whose terminator was pushed back.
errLineEnd(lx, tok) ==
    LET from == IF tok.tokenText = "newline in string" THEN lx.pos - 1 ELSE lx.pos
        nls == { i \in from..Len(lx.input) : lx.input[i] = NLCHAR }
    IN  IF nls = {} THEN 0 ELSE CHOOSE i \in nls : \A j \in nls : i <= j

\* C26: the token returned after an Error token is the Newline that ends the
\* line of the error, or EOF if no newline ends it, and the lexer is then
\* between tokens at the first byte of the following line, so the following
\* lines are read as if no error had happened.
C26_Recover ==
    [][ (xl.at = "lex" /\ xl.out # <<>> /\ xl.out[Len(xl.out)].tokenKind = "TkError") =>
          LET e == errLineEnd(xl.lx, xl.out[Len(xl.out)])
              t == xl'.out[Len(xl'.out)]
          IN  IF e = 0 THEN t.tokenKind = "TkEOF"
              ELSE /\ t.tokenKind = "TkNewline"
                   /\ xl'.lx.pos = e + 1
                   /\ xl'.lx.lexerState = stBetween ]_vars

\* C29: Use on a name the table does not know succeeds and returns the index
\* of the entry it appended at the end of the table; the entry is an
\* undefined reference, and Get on the name fails before and after the Use.
C29_UseUndefined ==
    [][ (xl.at = "sym" /\ xl'.n = xl.n + 1 /\ xl'.last.op = "Use"
           /\ xl'.last.name \notin DOMAIN xl.st.indexes) =>
          /\ ~xl'.last.err
          /\ Len(xl'.st.entries) = Len(xl.st.entries) + 1
          /\ xl'.last.index = Len(xl'.st.entries) - 1
          /\ xl'.st.indexes[xl'.last.name] = xl'.last.index
          /\ ~isDefined(xl'.st.entries[xl'.last.index + 1])
          /\ Get(xl.st, xl'.last.name).err
          /\ Get(xl'.st, xl'.last.name).err ]_vars

\* Use("pdp11") on the initial table has appended entry 35; a Get of the
\* name follows and fails
C29_Witness ==
    /\ xl.at = "sym"
    /\ xl.n = 2
    /\ xl.last = [op |-> "Get", name |-> "pdp11", value |-> NoValue, index |-> 35, err |-> TRUE]
    /\ Len(xl.st.entries) = 36
    /\ xl.st.entries[36] = [flags |-> 0, value |-> NoValue]

\* C30: when a name that was used before (an undefined entry) is defined
\* with the value v, the entry is marked defined and Get on the name returns
\* v without error.
C30_DefineLater ==
    [][ (xl.at = "sym" /\ xl'.n = xl.n + 1 /\ xl'.last.op = "Define"
           /\ xl'.last.name \in DOMAIN xl.st.indexes
           /\ ~isDefined(xl.st.entries[xl.st.indexes[xl'.last.name] + 1])) =>
          /\ ~xl'.last.err
          /\ isDefined(xl'.st.entries[xl'.st.indexes[xl'.last.name] + 1])
          /\ ~Get(xl'.st, xl'.last.name).err
          /\ Get(xl'.st, xl'.last.name).value = xl'.last.value ]_vars

\* the parser is about to read the first token of a line after the first
atLineStart ==
    /\ xl.at = "parse"
    /\ xl.pbToken = <<>>
    /\ xl.pos > 1
    /\ xl.toks[xl.pos - 1].tokenKind = "TkNewline"

\* C27: after any parse error the parser discards the rest of the offending
\* line up to and including its Newline and resumes normal parsing with the
\* first token of the following line: whenever the first token of a line is
\* about to be read, the parser is in the line start state.
C27_Resume == atLineStart => xl.ctx.state = StBetweenLines

\* the parser is about to read the Newline of a line that holds a Label alone
atLabelOnlyNewline ==
    /\ xl.at = "parse"
    /\ xl.pbToken = <<>>
    /\ xl.pos >= 2 /\ xl.pos <= Len(xl.toks)
    /\ xl.toks[xl.pos].tokenKind = "TkNewline"
    /\ xl.toks[xl.pos - 1].tokenKind = "TkLabel"
    /\ IF xl.pos = 2 THEN TRUE ELSE xl.toks[xl.pos - 2].tokenKind = "TkNewline"
    /\ xl.ctx.state = StNeedKey

\* C28: a line consisting only of a Label followed by Newline is accepted:
\* the label is defined, and reading the Newline counts no error, produces
\* no MachineInstruction and leaves the parser at the start of a line.
C28_LabelOnly ==
    [][(atLabelOnlyNewline /\ xl'.at = "parse")
         => /\ xl'.ctx.errorCount = xl.ctx.errorCount
            /\ xl'.ctx.instructions = xl.ctx.instructions
            /\ xl'.ctx.state = StBetweenLines
            /\ ~Get(xl'.ctx.symtab, xl.toks[xl.pos - 1].tokenText).err]_vars

\* C31: the value of a defined symbol may not be changed: a Define of a name
\* that is defined in the table (the registers and key mnemonics included),
\* or that the call before it defined successfully, returns the redefined
\* error and leaves the table as it was.
C31_DefineOnce ==
    [][(/\ xl.at = "sym" /\ xl'.at = "sym"
        /\ xl'.last.op = "Define"
        /\ IF ~Get(xl.st, xl'.last.name).err THEN TRUE
           ELSE IF xl.last.op = "Define"
           THEN ~xl.last.err /\ xl.last.name = xl'.last.name
           ELSE FALSE)
         => (xl'.last.err /\ xl'.last.index = NoSymbol /\ xl'.st = xl.st)]_vars

\* the values a field of signature element se can hold: SeImm6 is a 6-bit
\* unsigned, SeImm7 a 7-bit signed, SeImm10 a 10-bit unsigned field
fitsField(se, v) ==
    CASE se = SeImm6 -> v >= 0 /\ v <= 63
      [] se = SeImm7 -> v >= 0 - 64 /\ v <= 63
      [] se = SeImm10 -> v >= 0 /\ v <= 1023
      [] OTHER -> TRUE

\* the parser is about to read a Number as the operand of a key
atNumberOperand ==
    /\ xl.at = "parse"
    /\ xl.pbToken = <<>>
    /\ xl.pos <= Len(xl.toks)
    /\ xl.toks[xl.pos].tokenKind = "TkNumber"
    /\ xl.ctx.state = StNeedExpression

\* the signed value of the Number about to be read
operandValue ==
    IF xl.ctx.positive THEN ParseInt(xl.toks[xl.pos].tokenText).value
    ELSE 0 - ParseInt(xl.toks[xl.pos].tokenText).value

\* C32: an immediate operand whose value does not fit in the immediate field
\* of its instruction is reported as an error and is never silently
\* truncated: reading such a Number counts an error and stores no operand.
C32_ImmRange ==
    [][(/\ atNumberOperand
        /\ ~fitsField(getSig(xl.ctx.signature, xl.ctx.opindex), operandValue)
        /\ xl'.at = "parse")
         => /\ xl'.ctx.errorCount = xl.ctx.errorCount + 1
            /\ xl'.ctx.instructions = xl.ctx.instructions]_vars

sameToken(a, b) == a.tokenKind = b.tokenKind /\ a.tokenText = b.tokenText

\* C34: one token of lookahead: a pushback succeeds exactly when no token is
\* pushed back and the lexer is between tokens; the GetToken after a
\* successful pushback of T returns T; as long as no pushback has failed,
\* every token read is the one a reader that never pushes back gets at that
\* place; a pushback onto a pushed-back token returns an error.
C34_Lookahead ==
    [][xl.at = "unget"
         => /\ (xl'.last = "unget")
                 => (xl'.err <=> (xl.lx.pbToken # <<>> \/ xl.lx.lexerState # stBetween))
            /\ (xl'.last = "unget" /\ xl.last = "unget" /\ ~xl.err) => xl'.err
            /\ (xl'.last = "get" /\ xl.last = "unget" /\ ~xl.err)
                 => sameToken(xl'.tok[1], xl.tok[1])
            /\ (xl'.last = "get" /\ ~xl.failed)
                 => sameToken(xl'.tok[1],
                              xl.ref[IF xl'.net > Len(xl.ref) THEN Len(xl.ref)
                                     ELSE xl'.net])]_vars

\* a token was pushed back, read again, and the token after it was read
C34_Witness ==
    /\ xl.at = "unget"
    /\ xl.ungets = 1 /\ ~xl.failed
    /\ xl.last = "get"
    /\ xl.net = 2
    /\ xl.tok[1].tokenKind = "TkNewline"
    /\ xl.ref[1].tokenKind = "TkSymbol"

\* C35: the exception latch holds 0, an even code in 2..30 or one of
\* ExIllegal, ExMemory and ExMachine in every state, and a cycle ends with a
\* code in 2..30 only when it executed the sys word of that number.
C35_ExCodes ==
    /\ [](\/ y4.ex = 0
          \/ y4.ex % 2 = 0 /\ y4.ex >= 2 /\ y4.ex <= 30
          \/ y4.ex \in {ExIllegal, ExMemory, ExMachine})
    /\ [][(CycleStep /\ y4'.ex >= 2 /\ y4'.ex <= 30)
            => /\ Executes
               /\ y4'.ir = mkJLR(0, 0, y4'.ex)]_vars

\* the kernel has executed sys 16 with interrupts disabled
C35_Witness ==
    /\ y4.ex = 16
    /\ y4.ir = mkJLR(0, 0, 16)
    /\ y4.mode = Kern
    /\ status = "double fault"

\* C36: I/O space is accessible only in kernel mode: lio and sio executed in
\* user mode latch ExIllegal and write no register (the stubs loadIO and
\* storeIO touch no I/O slot in either mode).
C36_IoKernelOnly ==
    [][(Executes /\ Fetched.mode = User /\ y4'.isYop /\ y4'.yop \in {1, 3})
         => /\ y4'.ex = ExIllegal
            /\ y4'.reg = Fetched.reg]_vars

\* the parser is about to read a Symbol as the operand of a key
atSymbolOperand ==
    /\ xl.at = "parse"
    /\ xl.pbToken = <<>>
    /\ xl.pos <= Len(xl.toks)
    /\ xl.toks[xl.pos].tokenKind = "TkSymbol"
    /\ xl.ctx.state = StNeedExpression

\* the symbol a reference names is flagged as negated
refNegated(st, index) == bits(st.entries[index + 1].flags, 14, 14) = 1

\* the symbol operands of the instructions before dot
earlierRefs(ctx) ==
    { ctx.instructions[i][p] : i \in 1..ctx.dot, p \in 2..4 } \ {0}

\* C37: negation of a symbol operand applies to that reference only: an
\* operand read without a minus sign does not name a negated symbol, and
\* reading an operand does not change whether the symbol operands of the
\* instructions before it are negated.
C37_NegateLocal ==
    [][(atSymbolOperand /\ xl'.at = "parse")
         => LET index == Use(xl.ctx.symtab, xl.toks[xl.pos].tokenText).index
            IN  /\ xl.ctx.positive => ~refNegated(xl'.ctx.symtab, index)
                /\ \A r \in earlierRefs(xl.ctx) :
                      r < IsValue =>
                        (refNegated(xl'.ctx.symtab, r) <=> refNegated(xl.ctx.symtab, r))]_vars

C39_Partition ==
    xl.at = "decd"
      => /\ Cardinality({k \in {"base", "xop", "yop", "zop", "vop"} :
                            CASE k = "base" -> xl.isBase
                              [] k = "xop" -> xl.isXop
                              [] k = "yop" -> xl.isYop
                              [] k = "zop" -> xl.isZop
                              [] OTHER -> xl.isVop}) = 1
         /\ ~xl.fail

\* the word 0xFFF8 (the zop pattern in bits 15..6, the vop pattern in bits
\* 15..3) has been decoded as a vop
C39_Witness ==
    /\ xl.at = "decd"
    /\ xl.ir = 65528
    /\ xl.isVop
    /\ ~xl.isZop

\* What the i-th Register's input presents in the current state
inputBits(i) ==
    IF xl.state[i].input = 0 THEN zeroes(xl.width)
    ELSE xl.state[xl.state[i].input].exposedState

\* The first Evaluate of a cycle is about to run
beforeEvaluate == xl.at = "sim" /\ xl.phase = "evaluate" /\ xl.idx = 1

\* Every Evaluate of the cycle has run and no PositiveEdge yet
beforeEdge == xl.at = "sim" /\ xl.phase = "edge" /\ xl.idx = 1

\* C40: on every simulated cycle no Register holds a cached next state when
\* the first Evaluate runs, after the Evaluates every Register's next state
\* and clock enable are the ones its input and its enable give in this cycle,
\* and a Register's exposed state changes only in its own PositiveEdge (or
\* in the Reset of a Simulate call).
C40_Recompute ==
    /\ [](/\ beforeEvaluate =>
                \A i \in DOMAIN xl.state : ~xl.state[i].nextStateValid
          /\ beforeEdge =>
                \A i \in DOMAIN xl.state :
                    /\ xl.state[i].nextState = inputBits(i)
                    /\ xl.state[i].nextClockEnabled = xl.en[i])
    /\ [][xl.at = "sim" =>
            \A i \in DOMAIN xl.state :
                xl'.state[i].exposedState # xl.state[i].exposedState
                    => \/ xl.phase = "edge" /\ xl.idx = i
                       \/ xl.phase = "idle"]_vars

====
